---- MODULE Spec2Model ----
(***************************************************************************)
(* Model of the object-store access layer (src/src/s3.ts) and of the local *)
(* image cache (src/src/images.ts) of ww-wanderers-blogutils.              *)
(*                                                                         *)
(* Every asynchronous function is modelled as a small program counter      *)
(* machine whose steps are the completions of its awaits: the code that    *)
(* runs synchronously after an await completes, up to the next await, is   *)
(* part of the same step.                                                  *)
(***************************************************************************)
EXTENDS Integers, Sequences, FiniteSets, TLC

VARIABLES
  rt,            \* the withRetry call in progress
  config,        \* the workspace configuration getConfig() returns
  cachedClient,  \* s3.ts: let cachedClient (0 is null)
  cachedConfig,  \* s3.ts: let cachedConfig
  clients,       \* number of S3Client objects constructed so far
  destroyed,     \* the clients on which destroy() was called
  cl,            \* the last getS3Client call: its inputs and what it returned
  lk,            \* the listKeys call in progress
  tc,            \* the testConnection call in progress
  store,         \* the listing the object store serves
  CACHE_DIR,     \* images.ts: let CACHE_DIR ("null" or "set")
  ic,            \* the initialize_image_cache call
  fs,            \* the file system below the cache root
  now,           \* Date.now(), in seconds
  pendingDeletes,\* directory deletes requested and not awaited, in flight
  sw,            \* the _cleanCache call tree in progress
  gc,            \* the getCachedImage calls
  up,            \* the uploadImages call in progress
  pi             \* a parseImageInfo call: its argument and what it returned

retryVars ==
  <<rt>>

clientVars ==
  <<config, cachedClient, cachedConfig, clients, destroyed, cl>>

listVars ==
  <<lk, tc, store>>

cacheVars ==
  <<CACHE_DIR, ic, fs, now, pendingDeletes, sw, gc>>

uploadVars ==
  <<up, pi>>

vars ==
  <<rt, config, cachedClient, cachedConfig, clients, destroyed, cl, lk, tc,
    store,
    CACHE_DIR, ic, fs, now, pendingDeletes, sw, gc, up, pi>>

(***************************************************************************)
(* Errors thrown by the wrapped operation.  An error value is the pair of  *)
(* the two fields the classification reads: error.code and                 *)
(* error.$metadata.httpStatusCode.  NoCode / NoStatus stand for a field    *)
(* that is undefined.                                                      *)
(***************************************************************************)
NoCode ==
  "undefined"

NoStatus ==
  0

Codes ==
  {NoCode, "Forbidden", "Unauthorized", "TooManyRequests", "NetworkingError",
   "ENOTFOUND", "NoSuchKey"}

Statuses ==
  {NoStatus, 401, 403, 404, 429, 499, 500, 599, 600}

Errors ==
  [code : Codes, status : Statuses]

NoError ==
  [code |-> "none", status |-> -1]

Values ==
  {[kind |-> "value", v |-> "v1"], [kind |-> "value", v |-> "v2"]}

NoValue ==
  [kind |-> "undefined"]

\* S3Error.isAuthError
isAuthError(error) ==
  \/ error.code = "Forbidden"
  \/ error.code = "Unauthorized"
  \/ error.status = 403
  \/ error.status = 401

\* S3Error.isRetryable
isRetryable(error) ==
  \/ error.code = "TooManyRequests"
  \/ error.status = 429
  \/ (error.status >= 500 /\ error.status < 600)

(***************************************************************************)
(* withRetry                                                               *)
(***************************************************************************)
MaxRetriesBound ==
  3

DefaultMaxRetries ==
  3

DefaultBaseDelay ==
  1000

BaseDelays ==
  {1, 3, DefaultBaseDelay}

RECURSIVE Pow2(_)
\* Math.pow(2, attempt)
Pow2(n) ==
  IF n = 0 THEN 1 ELSE 2 * Pow2(n - 1)

BackoffDelay_Linear(baseDelay, attempt) ==
  baseDelay * (attempt + 1)

\* const delay = baseDelay * Math.pow(2, attempt)
BackoffDelay(baseDelay, attempt) ==
  baseDelay * Pow2(attempt)

StopRetrying_OffByOne(attempt, maxRetries, error) ==
  attempt + 1 >= maxRetries \/ ~isRetryable(error)

\* if (attempt === maxRetries || !S3Error.isRetryable(error)) break
StopRetrying(attempt, maxRetries, error) ==
  attempt = maxRetries \/ ~isRetryable(error)

Rethrow_Wrapped(error) ==
  [code |-> "S3Error", status |-> error.status]

\* throw lastError: the value withRetry rejects with
Rethrow(error) ==
  error

\* The state of one withRetry call.  pc: "idle" (not called), "operation"
\* (awaiting operation()), "delay" (awaiting the setTimeout promise),
\* "resolved", "rejected".  caller, maxRetries, baseDelay, attempt, lastError
\* are the call's arguments and locals; result / rejection the value the
\* returned promise settles with.  The remaining fields are history: calls is
\* the number of invocations of operation, delays the delays passed to
\* setTimeout in order, firstThrown / lastThrown the error of the first and of
\* the latest failed attempt, lastReturned the value of the fulfilled attempt,
\* allRetryable whether every failed attempt so far threw a Retryable error.
RetryIdle ==
  [pc |-> "idle", caller |-> "none", maxRetries |-> 0, baseDelay |-> 0,
   attempt |-> 0, lastError |-> NoError, result |-> NoValue,
   rejection |-> NoError,
   calls |-> 0, delays |-> <<>>, firstThrown |-> NoError,
   lastThrown |-> NoError, lastReturned |-> NoValue, allRetryable |-> TRUE]

\* withRetry(operation, maxRetries, baseDelay): attempt = 0 and the first
\* operation() is invoked.
RetryEnter(caller, maxRetries, baseDelay) ==
  [RetryIdle EXCEPT !.pc = "operation", !.caller = caller,
                    !.maxRetries = maxRetries, !.baseDelay = baseDelay,
                    !.calls = 1]

\* return await operation(): the awaited promise fulfils with value.
RetryOnFulfilled(r, value) ==
  [r EXCEPT !.pc = "resolved", !.result = value, !.lastReturned = value]

\* catch (error): record lastError, then either break and throw lastError or
\* start the backoff timer.
RetryOnRejected(r, error) ==
  LET r1 == [r EXCEPT !.lastError = error,
                      !.lastThrown = error,
                      !.firstThrown = IF r.calls = 1 THEN error ELSE @,
                      !.allRetryable = @ /\ isRetryable(error)]
  IN IF StopRetrying(r.attempt, r.maxRetries, error)
     THEN [r1 EXCEPT !.pc = "rejected", !.rejection = Rethrow(r1.lastError)]
     ELSE [r1 EXCEPT !.pc = "delay",
                     !.delays = Append(@, BackoffDelay(r.baseDelay, r.attempt))]

\* The timer fires: attempt++, the loop condition attempt <= maxRetries is
\* evaluated and operation() is invoked again (or the loop ends and lastError
\* is thrown).
RetryOnTimer(r) ==
  IF r.attempt + 1 <= r.maxRetries
  THEN [r EXCEPT !.pc = "operation", !.attempt = @ + 1, !.calls = @ + 1]
  ELSE [r EXCEPT !.pc = "rejected", !.attempt = @ + 1,
                 !.rejection = Rethrow(r.lastError)]

\* A caller invokes withRetry directly with an arbitrary operation.
RetryCall ==
  /\ rt.pc \in {"idle", "resolved", "rejected"}
  /\ rt.caller \in {"none", "direct"}
  /\ \E n \in 0..MaxRetriesBound, b \in BaseDelays :
       rt' = RetryEnter("direct", n, b)
  /\ UNCHANGED <<clientVars, listVars, cacheVars, uploadVars>>

RetryOperationFails ==
  /\ rt.pc = "operation"
  /\ rt.caller = "direct"
  /\ \E e \in Errors : rt' = RetryOnRejected(rt, e)
  /\ UNCHANGED <<clientVars, listVars, cacheVars, uploadVars>>

RetryOperationSucceeds ==
  /\ rt.pc = "operation"
  /\ rt.caller = "direct"
  /\ \E v \in Values : rt' = RetryOnFulfilled(rt, v)
  /\ UNCHANGED <<clientVars, listVars, cacheVars, uploadVars>>

RetryDelayElapsed ==
  /\ rt.pc = "delay"
  /\ rt' = RetryOnTimer(rt)
  /\ UNCHANGED <<clientVars, listVars, cacheVars, uploadVars>>

(***************************************************************************)
(* The cached transport client: getS3Client, configsEqual, clearClientCache *)
(***************************************************************************)
NoClient ==
  0

NoConfig ==
  [kind |-> "null"]

\* config.ts getConfig(): the defaults of the fields s3.ts and images.ts read
DefaultConfig ==
  [s3EndpointUrl |-> "", region |-> "auto", accessKeyId |-> "",
   secretAccessKey |-> "", forcePathStyle |-> TRUE,
   imagesBucket |-> "ww-wanderers-assets-cyokuifedvc",
   imagesPrefix |-> "images/",
   publicUrlBase |-> "https://assets.ww-wanderers.cc",
   previewImageBaseNameFormat |-> <<"%s", "-", "2", "4", "0">>]

configsEqual_NoPathStyle(a, b) ==
  /\ a.s3EndpointUrl = b.s3EndpointUrl
  /\ a.region = b.region
  /\ a.accessKeyId = b.accessKeyId
  /\ a.secretAccessKey = b.secretAccessKey

configsEqual(a, b) ==
  /\ a.s3EndpointUrl = b.s3EndpointUrl
  /\ a.region = b.region
  /\ a.accessKeyId = b.accessKeyId
  /\ a.secretAccessKey = b.secretAccessKey
  /\ a.forcePathStyle = b.forcePathStyle

\* The module state of s3.ts as one record, so that the functions that change
\* it can be written as operators from state to state.
ClientState ==
  [cachedClient |-> cachedClient, cachedConfig |-> cachedConfig,
   clients |-> clients, destroyed |-> destroyed]

clearClientCache_NoDestroy(cs) ==
  IF cs.cachedClient # NoClient
  THEN [cs EXCEPT !.cachedClient = NoClient,
                  !.cachedConfig = NoConfig]
  ELSE cs

\* clearClientCache()
clearClientCache(cs) ==
  IF cs.cachedClient # NoClient
  THEN [cs EXCEPT !.destroyed = @ \cup {cs.cachedClient},
                  !.cachedClient = NoClient,
                  !.cachedConfig = NoConfig]
  ELSE cs

\* getS3Client(forceNew) under currentConfig: the module state it leaves; the
\* client it returns is the cachedClient of that state.
getS3Client(cs, currentConfig, forceNew) ==
  IF /\ ~forceNew
     /\ cs.cachedClient # NoClient
     /\ cs.cachedConfig # NoConfig
     /\ configsEqual(currentConfig, cs.cachedConfig)
  THEN cs
  ELSE LET cleared == clearClientCache(cs)
       IN [cleared EXCEPT !.clients = @ + 1,
                          !.cachedClient = cs.clients + 1,
                          !.cachedConfig = currentConfig]

SetClientState(cs) ==
  /\ cachedClient' = cs.cachedClient
  /\ cachedConfig' = cs.cachedConfig
  /\ clients' = cs.clients
  /\ destroyed' = cs.destroyed

\* the number of S3Client objects a session constructs
MaxClients ==
  3

\* The settings a user may give the fields of the configuration: each field
\* has its default and one other value.
SettingValues ==
  [s3EndpointUrl |-> {"", "https://r2.example"},
   region |-> {"auto", "eu"},
   accessKeyId |-> {"", "AK"},
   secretAccessKey |-> {"", "SK"},
   forcePathStyle |-> BOOLEAN,
   imagesBucket |-> {"ww-wanderers-assets-cyokuifedvc", "other-bucket"},
   imagesPrefix |-> {"images/", "img/"}]

Settings ==
  DOMAIN SettingValues

\* No getS3Client call has been made yet.  calls counts the calls modulo 2,
\* quiet is TRUE while neither the configuration nor the cache has been
\* touched since the last call.
NoCall ==
  [calls |-> 0, forceNew |-> FALSE, returned |-> NoClient, quiet |-> FALSE]

\* the user changes one setting: getConfig() returns the new value from now on
ConfigChange ==
  /\ \E field \in Settings :
       \E value \in SettingValues[field] \ {config[field]} :
         config' = [config EXCEPT ![field] = value]
  /\ cl' = [cl EXCEPT !.quiet = FALSE]
  /\ UNCHANGED <<cachedClient, cachedConfig, clients, destroyed>>
  /\ UNCHANGED <<retryVars, listVars, cacheVars, uploadVars>>

\* getS3Client(forceNew)
GetS3ClientCall ==
  /\ clients < MaxClients
  /\ \E forceNew \in BOOLEAN :
       LET cs == getS3Client(ClientState, config, forceNew)
       IN /\ SetClientState(cs)
          /\ cl' = [calls |-> (cl.calls + 1) % 2, forceNew |-> forceNew,
                    returned |-> cs.cachedClient, quiet |-> TRUE]
  /\ UNCHANGED config
  /\ UNCHANGED <<retryVars, listVars, cacheVars, uploadVars>>

\* clearClientCache(), as the extension calls it on deactivation or on a
\* configuration event
ClearClientCacheCall ==
  /\ SetClientState(clearClientCache(ClientState))
  /\ cl' = [cl EXCEPT !.quiet = FALSE]
  /\ UNCHANGED config
  /\ UNCHANGED <<retryVars, listVars, cacheVars, uploadVars>>

(***************************************************************************)
(* The object store's ListObjectsV2.  The listing of the requested prefix  *)
(* is a sequence of store.entries entries in key order; with Delimiter "/" *)
(* an entry is either an object (reported in Contents) or a common prefix  *)
(* (reported in CommonPrefixes), and both count against MaxKeys.  Entry i  *)
(* is a common prefix iff store.prefixEvery divides i.  A continuation     *)
(* token is the number of entries already served; NoToken is undefined.    *)
(***************************************************************************)
NoToken ==
  0

MaxStoreEntries ==
  1600

StoreSizes ==
  {0, 2, 5, 1002, MaxStoreEntries}

PrefixPatterns ==
  {0, 3}

Stores ==
  [entries : StoreSizes, prefixEvery : PrefixPatterns]

Min(a, b) ==
  IF a < b THEN a ELSE b

Max(a, b) ==
  IF a > b THEN a ELSE b

\* the number of common prefixes among the entries lo+1 .. hi
PrefixesIn(st, lo, hi) ==
  IF st.prefixEvery = 0 THEN 0
  ELSE (hi \div st.prefixEvery) - (lo \div st.prefixEvery)

\* the number of objects among the entries lo+1 .. hi
ObjectsIn(st, lo, hi) ==
  (hi - lo) - PrefixesIn(st, lo, hi)

\* the number of objects the store holds under the prefix
StoreObjects(st) ==
  ObjectsIn(st, 0, st.entries)

\* The sizes of the page the store may serve for a request of maxKeys entries
\* when avail are left: all it may (full), or about half of them.
PageSizes(maxKeys, avail) ==
  LET full == Min(maxKeys, avail)
  IN {full, (full + 1) \div 2}

\* The response to request req when the store serves n entries.
ListObjectsV2(st, req, n) ==
  LET lo == req.ContinuationToken
      hi == lo + n
  IN [kind |-> "page",
      Contents |-> ObjectsIn(st, lo, hi),
      CommonPrefixes |-> PrefixesIn(st, lo, hi),
      NextContinuationToken |-> IF hi < st.entries THEN hi ELSE NoToken]

(***************************************************************************)
(* listKeys                                                                *)
(***************************************************************************)
PageLimit ==
  1000

MaxKeysInputs ==
  {1, 2, 3, 10, 1001}

PrefixInputs ==
  {"images/", "images/trip/"}

NoRequest ==
  [kind |-> "none"]

NoResponse ==
  [kind |-> "none", Contents |-> 0, CommonPrefixes |-> 0,
   NextContinuationToken |-> NoToken]

ListIdle ==
  [pc |-> "idle", fn |-> "none", bucket |-> "", prefix |-> "", maxKeys |-> 0,
   client |-> NoClient, config |-> NoConfig, keys |-> 0,
   continuationToken |-> NoToken, request |-> NoRequest,
   response |-> NoResponse, error |-> NoError, pages |-> 0]

\* const remainingKeys = Math.max(maxKeys - keys.length, 0)
remainingKeys(maxKeys, nKeys) ==
  Max(maxKeys - nKeys, 0)

ListKeysRequest_BucketArgument(l) ==
  [Bucket |-> l.bucket,
   Delimiter |-> "/",
   Prefix |-> l.prefix,
   MaxKeys |-> Min(remainingKeys(l.maxKeys, l.keys), PageLimit),
   ContinuationToken |-> l.continuationToken,
   client |-> l.client]

ListKeysRequest_NoToken(l) ==
  [Bucket |-> l.config.imagesBucket,
   Delimiter |-> "/",
   Prefix |-> l.prefix,
   MaxKeys |-> Min(remainingKeys(l.maxKeys, l.keys), PageLimit),
   ContinuationToken |-> NoToken,
   client |-> l.client]

\* new ListObjectsV2Command({...}) of listKeys
ListKeysRequest(l) ==
  [Bucket |-> l.config.imagesBucket,
   Delimiter |-> "/",
   Prefix |-> l.prefix,
   MaxKeys |-> Min(remainingKeys(l.maxKeys, l.keys), PageLimit),
   ContinuationToken |-> l.continuationToken,
   client |-> l.client]

ContinueListing_FirstPageOnly(token, nKeys, maxKeys) ==
  token # NoToken /\ nKeys + PageLimit < maxKeys

\* while (continuationToken && keys.length < maxKeys)
ContinueListing(token, nKeys, maxKeys) ==
  token # NoToken /\ nKeys < maxKeys

\* The body of the do loop after the awaited response arrived: the keys of
\* Contents are pushed and the token is taken over.
ListKeysOnResponse(l, response) ==
  [l EXCEPT !.keys = @ + response.Contents,
            !.continuationToken = response.NextContinuationToken,
            !.response = response,
            !.pages = @ + 1]

\* No testConnection call has been made.
TestIdle ==
  [pc |-> "idle", config |-> NoConfig, cause |-> NoError,
   error |-> [name |-> "none"]]

\* listKeys(bucket, prefix, maxKeys) up to its first await, entered with the
\* module state cs: getS3Client(), getCachedConfig(), and the first page
\* request handed to withRetry.
ListKeysEnter(cs0, prefix, maxKeys) ==
  LET cs == getS3Client(cs0, config, FALSE)
      l0 == [ListIdle EXCEPT !.pc = "page",
                             !.fn = "listKeys",
                             !.bucket = config.imagesBucket,
                             !.prefix = prefix,
                             !.maxKeys = maxKeys,
                             !.client = cs.cachedClient,
                             !.config = cs.cachedConfig]
  IN /\ cs0.clients < MaxClients
     /\ SetClientState(cs)
     /\ cl' = [calls |-> (cl.calls + 1) % 2, forceNew |-> FALSE,
               returned |-> cs.cachedClient, quiet |-> TRUE]
     /\ lk' = [l0 EXCEPT !.request = ListKeysRequest(l0)]
     /\ rt' = RetryEnter("listKeys", DefaultMaxRetries, DefaultBaseDelay)

ListOnRejected_Partial(l, error) ==
  [l EXCEPT !.pc = "done"]

\* await withRetry(...) throws: there is no try around it in listKeys or in
\* listDirectories, so the call rejects with the error and keys is dropped.
ListOnRejected(l, error) ==
  [l EXCEPT !.pc = "failed", !.error = error]

\* a caller other than testConnection invokes listKeys
ListKeysCall ==
  /\ lk.pc \in {"idle", "done", "failed"}
  /\ tc.pc # "listing"
  /\ rt.pc \in {"idle", "resolved", "rejected"}
  /\ \E prefix \in PrefixInputs, maxKeys \in MaxKeysInputs :
       ListKeysEnter(ClientState, prefix, maxKeys)
  /\ UNCHANGED <<config, tc, store, cacheVars, uploadVars>>

ListErrors ==
  {[code |-> NoCode, status |-> 503],
   [code |-> "Forbidden", status |-> 403],
   [code |-> "NoSuchKey", status |-> 404],
   [code |-> "NetworkingError", status |-> NoStatus],
   [code |-> "NetworkingError", status |-> 403],
   [code |-> "ENOTFOUND", status |-> NoStatus]}

\* client.send rejects: withRetry either schedules a retry or rejects, and
\* then the await in listKeys throws and listKeys rejects with that error.
ListPageFails ==
  /\ lk.pc = "page"
  /\ rt.pc = "operation"
  /\ rt.caller = "listKeys"
  /\ \E e \in ListErrors :
       LET r1 == RetryOnRejected(rt, e)
       IN /\ rt' = r1
          /\ lk' = IF r1.pc = "rejected"
                   THEN ListOnRejected(lk, r1.rejection)
                   ELSE lk
  /\ UNCHANGED <<clientVars, tc, store, cacheVars, uploadVars>>

\* client.send fulfils with a page: withRetry resolves, listKeys collects the
\* keys and either requests the next page or returns keys.
ListPageArrives ==
  /\ lk.pc = "page"
  /\ rt.pc = "operation"
  /\ rt.caller = "listKeys"
  /\ \E n \in PageSizes(lk.request.MaxKeys,
                        store.entries - lk.request.ContinuationToken) :
       LET response == ListObjectsV2(store, lk.request, n)
           l1 == ListKeysOnResponse(lk, response)
       IN IF ContinueListing(l1.continuationToken, l1.keys, l1.maxKeys)
          THEN /\ lk' = [l1 EXCEPT !.request = ListKeysRequest(l1)]
               /\ rt' = RetryEnter("listKeys", DefaultMaxRetries, DefaultBaseDelay)
          ELSE /\ lk' = [l1 EXCEPT !.pc = "done"]
               /\ rt' = RetryOnFulfilled(rt, response)
  /\ UNCHANGED <<clientVars, tc, store, cacheVars, uploadVars>>

(***************************************************************************)
(* listDirectories.  The call is kept in lk like a listKeys call, with     *)
(* keys counting the entries of dirs.                                      *)
(***************************************************************************)
MaxDirs ==
  10000

ListDirectoriesRequest_PrefixArgument(l) ==
  [Bucket |-> l.config.imagesBucket,
   Delimiter |-> "/",
   Prefix |-> l.prefix,
   MaxKeys |-> Min(remainingKeys(MaxDirs, l.keys), PageLimit),
   ContinuationToken |-> l.continuationToken,
   client |-> l.client]

\* new ListObjectsV2Command({...}) of listDirectories
ListDirectoriesRequest(l) ==
  [Bucket |-> l.config.imagesBucket,
   Delimiter |-> "/",
   Prefix |-> l.config.imagesPrefix,
   MaxKeys |-> Min(remainingKeys(MaxDirs, l.keys), PageLimit),
   ContinuationToken |-> l.continuationToken,
   client |-> l.client]

\* the body of the do loop of listDirectories after the response arrived
ListDirectoriesOnResponse(l, response) ==
  [l EXCEPT !.keys = @ + response.CommonPrefixes,
            !.continuationToken = response.NextContinuationToken,
            !.response = response,
            !.pages = @ + 1]

\* listDirectories(bucket, prefix) up to its first await
ListDirectoriesCall ==
  /\ lk.pc \in {"idle", "done", "failed"}
  /\ tc.pc # "listing"
  /\ rt.pc \in {"idle", "resolved", "rejected"}
  /\ clients < MaxClients
  /\ \E prefix \in PrefixInputs :
       LET cs == getS3Client(ClientState, config, FALSE)
           l0 == [ListIdle EXCEPT !.pc = "page",
                                  !.fn = "listDirectories",
                                  !.bucket = config.imagesBucket,
                                  !.prefix = prefix,
                                  !.maxKeys = MaxDirs,
                                  !.client = cs.cachedClient,
                                  !.config = cs.cachedConfig]
       IN /\ SetClientState(cs)
          /\ cl' = [calls |-> (cl.calls + 1) % 2, forceNew |-> FALSE,
                    returned |-> cs.cachedClient, quiet |-> TRUE]
          /\ lk' = [l0 EXCEPT !.request = ListDirectoriesRequest(l0)]
          /\ rt' = RetryEnter("listDirectories", DefaultMaxRetries,
                              DefaultBaseDelay)
  /\ UNCHANGED <<config, tc, store, cacheVars, uploadVars>>

\* client.send rejects inside listDirectories
ListDirectoriesPageFails ==
  /\ lk.pc = "page"
  /\ rt.pc = "operation"
  /\ rt.caller = "listDirectories"
  /\ \E e \in ListErrors :
       LET r1 == RetryOnRejected(rt, e)
       IN /\ rt' = r1
          /\ lk' = IF r1.pc = "rejected"
                   THEN ListOnRejected(lk, r1.rejection)
                   ELSE lk
  /\ UNCHANGED <<clientVars, tc, store, cacheVars, uploadVars>>

\* client.send fulfils with a page inside listDirectories
ListDirectoriesPageArrives ==
  /\ lk.pc = "page"
  /\ rt.pc = "operation"
  /\ rt.caller = "listDirectories"
  /\ \E n \in PageSizes(lk.request.MaxKeys,
                        store.entries - lk.request.ContinuationToken) :
       LET response == ListObjectsV2(store, lk.request, n)
           l1 == ListDirectoriesOnResponse(lk, response)
       IN IF ContinueListing(l1.continuationToken, l1.keys, MaxDirs)
          THEN /\ lk' = [l1 EXCEPT !.request = ListDirectoriesRequest(l1)]
               /\ rt' = RetryEnter("listDirectories", DefaultMaxRetries,
                                   DefaultBaseDelay)
          ELSE /\ lk' = [l1 EXCEPT !.pc = "done"]
               /\ rt' = RetryOnFulfilled(rt, response)
  /\ UNCHANGED <<clientVars, tc, store, cacheVars, uploadVars>>

(***************************************************************************)
(* testConnection.  A message is the sequence of the pieces of its         *)
(* template: the literal text and the values interpolated into it.         *)
(***************************************************************************)
TestMaxKeys ==
  10

AuthFailedMessage ==
  <<"Authentication failed. Please check your access credentials.">>

\* error.message of the error the listing threw
MessageOf(error) ==
  "message of " \o error.code

\* new S3Error(message, code, statusCode, retryable)
S3Error(message, code, statusCode, retryable) ==
  [name |-> "S3Error", message |-> message, code |-> code,
   statusCode |-> statusCode, retryable |-> retryable]

TestConnectionError_NetworkFirst(error, cfg) ==
  IF error.code = "NetworkingError" \/ error.code = "ENOTFOUND"
  THEN S3Error(<<"Cannot connect to endpoint: ", cfg.s3EndpointUrl,
                 ". Please verify the URL is correct.">>,
               error.code, NoStatus, TRUE)
  ELSE IF isAuthError(error)
  THEN S3Error(AuthFailedMessage, error.code, error.status, FALSE)
  ELSE S3Error(<<"Connection test failed: ", MessageOf(error)>>,
               error.code, error.status, isRetryable(error))

\* the catch block of testConnection: the S3Error it throws for error
TestConnectionError(error, cfg) ==
  IF isAuthError(error)
  THEN S3Error(AuthFailedMessage, error.code, error.status, FALSE)
  ELSE IF error.code = "NetworkingError" \/ error.code = "ENOTFOUND"
  THEN S3Error(<<"Cannot connect to endpoint: ", cfg.s3EndpointUrl,
                 ". Please verify the URL is correct.">>,
               error.code, NoStatus, TRUE)
  ELSE S3Error(<<"Connection test failed: ", MessageOf(error)>>,
               error.code, error.status, isRetryable(error))

\* testConnection() up to its await: getS3Client(), getCachedConfig(), and
\* listKeys(config.imagesBucket, config.imagesPrefix, 10) up to its own await.
TestConnectionCall ==
  /\ tc.pc \in {"idle", "resolved", "rejected"}
  /\ lk.pc \in {"idle", "done", "failed"}
  /\ rt.pc \in {"idle", "resolved", "rejected"}
  /\ LET cs == getS3Client(ClientState, config, FALSE)
     IN /\ tc' = [TestIdle EXCEPT !.pc = "listing", !.config = cs.cachedConfig]
        /\ ListKeysEnter(cs, cs.cachedConfig.imagesPrefix, TestMaxKeys)
  /\ UNCHANGED <<config, store, cacheVars, uploadVars>>

\* await listKeys(...) settles: testConnection returns, or its catch block
\* throws the S3Error for the error listKeys rejected with.
TestConnectionListingSettles ==
  /\ tc.pc = "listing"
  /\ lk.pc \in {"done", "failed"}
  /\ tc' = IF lk.pc = "done"
           THEN [tc EXCEPT !.pc = "resolved"]
           ELSE [tc EXCEPT !.pc = "rejected",
                           !.cause = lk.error,
                           !.error = TestConnectionError(lk.error, tc.config)]
  /\ UNCHANGED <<retryVars, clientVars, lk, store, cacheVars, uploadVars>>

(***************************************************************************)
(* The file system below the cache root (vscode workspace.fs).  A node is  *)
(* the sequence of path segments below CACHE_DIR.                          *)
(***************************************************************************)
Root ==
  <<>>

\* Strings that are taken apart or put together (file names, image names,
\* folder names) are sequences of characters.
Webp ==
  <<"w", "e", "b", "p">>

Dot ==
  <<".">>

Trip ==
  <<"t", "r", "i", "p">>

Home ==
  <<"h", "o", "m", "e">>

Old ==
  <<"o", "l", "d">>

Lnk ==
  <<"l", "n", "k">>

NameA ==
  <<"a">>

NameB ==
  <<"b">>

Folders ==
  {Trip, Home}

\* `${name}.webp`
WebpFile(name) ==
  name \o Dot \o Webp

Directories ==
  {Root, <<Trip>>, <<Home>>, <<Trip, Old>>}

Nodes ==
  Directories \cup
  {<<Trip, WebpFile(NameA)>>, <<Trip, WebpFile(NameB)>>,
   <<Home, WebpFile(NameA)>>, <<Home, WebpFile(NameB)>>,
   <<Trip, Old, WebpFile(NameA)>>, <<Trip, Lnk>>}

\* the FileType a node has when it is present
NodeType(n) ==
  IF n \in Directories THEN "Directory"
  ELSE IF n = <<Trip, Lnk>> THEN "SymbolicLink"
  ELSE "File"

Parent(n) ==
  SubSeq(n, 1, Len(n) - 1)

\* the position of a node in the listing of its directory
ListingRank(n) ==
  CASE n = <<Trip>> -> 1
    [] n = <<Home>> -> 2
    [] n = <<Trip, Old>> -> 1
    [] n = <<Trip, WebpFile(NameA)>> -> 2
    [] n = <<Trip, WebpFile(NameB)>> -> 3
    [] n = <<Trip, Lnk>> -> 4
    [] n = <<Home, WebpFile(NameA)>> -> 1
    [] n = <<Home, WebpFile(NameB)>> -> 2
    [] OTHER -> 1

NoBytes ==
  [kind |-> "none"]

Absent ==
  [type |-> "none", mtime |-> 0, content |-> NoBytes]

Present(f, n) ==
  f[n].type # "none"

Children(f, d) ==
  {n \in Nodes : n # Root /\ Parent(n) = d /\ Present(f, n)}

RECURSIVE SortedListing(_, _)
SortedListing(f, ns) ==
  IF ns = {} THEN <<>>
  ELSE LET n == CHOOSE x \in ns : \A y \in ns : ListingRank(x) <= ListingRank(y)
       IN <<[node |-> n, type |-> f[n].type]>> \o SortedListing(f, ns \ {n})

\* workspace.fs.readDirectory(dir): the [name, type] pairs of the entries
readDirectory(f, d) ==
  SortedListing(f, Children(f, d))

RECURSIVE Ancestors(_)
\* the directories above a node, the root included
Ancestors(n) ==
  IF n = Root THEN {} ELSE {Parent(n)} \cup Ancestors(Parent(n))

\* workspace.fs.createDirectory(dir): the directory and its missing parents
createDirectory(f, d) ==
  [n \in Nodes |->
     IF n \in ({d} \cup Ancestors(d)) /\ ~Present(f, n)
     THEN [type |-> "Directory", mtime |-> 0, content |-> NoBytes]
     ELSE f[n]]

\* workspace.fs.writeFile(uri, content) at time t
writeFile(f, n, content, t) ==
  [createDirectory(f, Parent(n)) EXCEPT
     ![n] = [type |-> "File", mtime |-> t, content |-> content]]

\* workspace.fs.delete(uri) of a file
deleteFile(f, n) ==
  [f EXCEPT ![n] = Absent]

deleteDirectory_Recursive(f, d) ==
  [n \in Nodes |-> IF n = d \/ d \in Ancestors(n) THEN Absent ELSE f[n]]

\* workspace.fs.delete(uri, {recursive: false}) of a directory: it is removed
\* only if it is empty, the request fails otherwise
deleteDirectory(f, d) ==
  IF f[d].type = "Directory" /\ Children(f, d) = {}
  THEN [f EXCEPT ![d] = Absent]
  ELSE f

(***************************************************************************)
(* _cleanCache                                                             *)
(***************************************************************************)
\* 30 days.  Times are counted in seconds, the millisecond values of Date.now()
\* and of mtime divided by 1000: 30 * 24 * 60 * 60 * 1000 does not fit the
\* model checker's integers.
ExpireAge ==
  30 * 24 * 60 * 60

\* Date.now() in the initial state
StartTime ==
  ExpireAge + 5

MaxTicks ==
  2

IsExpired_Always(mtime, expireTime) ==
  TRUE

\* if (stat.mtime < expireTime)
IsExpired(mtime, expireTime) ==
  mtime < expireTime

\* One activation of _cleanCache(dir).  pc is the await it is suspended at:
\* "readDirectory", "stat", "delete", or "call" while a recursive
\* _cleanCache is running.
CleanFrame(dir, t) ==
  [dir |-> dir, expireTime |-> t - ExpireAge, deletedAll |-> TRUE,
   entries |-> <<>>, pc |-> "readDirectory"]

NoReturns ==
  [n \in Nodes |-> "none"]

SweepIdle ==
  [pc |-> "idle", caller |-> "none", stack |-> <<>>, result |-> "none",
   returns |-> NoReturns, start |-> [n \in Nodes |-> Absent],
   startTime |-> 0]

ReturnValue(b) ==
  IF b THEN "true" ELSE "false"

RECURSIVE CleanAdvance(_, _)
\* The synchronous run of the activation on top of the stack, from the head of
\* its remaining entries to its next await.  s is [stack, pending, returns,
\* result]; t is Date.now().  A finished activation returns deletedAll to its
\* caller, which requests the delete of the subdirectory without awaiting it
\* (line 239) or clears its own deletedAll.
CleanAdvance(s, t) ==
  IF s.stack = <<>> THEN s
  ELSE
    LET top == s.stack[Len(s.stack)]
        below == SubSeq(s.stack, 1, Len(s.stack) - 1)
    IN IF top.entries = <<>>
       THEN LET s1 == [s EXCEPT !.returns[top.dir] = ReturnValue(top.deletedAll)]
            IN IF below = <<>>
               THEN [s1 EXCEPT !.stack = <<>>,
                               !.result = ReturnValue(top.deletedAll)]
               ELSE LET caller == below[Len(below)]
                        caller1 == [caller EXCEPT
                                      !.entries = Tail(@),
                                      !.pc = "loop",
                                      !.deletedAll = IF top.deletedAll THEN @ ELSE FALSE]
                    IN CleanAdvance(
                         [s1 EXCEPT
                            !.stack = [below EXCEPT ![Len(below)] = caller1],
                            !.pending = IF top.deletedAll
                                        THEN @ \cup {top.dir} ELSE @], t)
       ELSE LET e == Head(top.entries)
            IN IF e.type = "Directory"
               THEN [s EXCEPT !.stack =
                        Append([s.stack EXCEPT ![Len(s.stack)].pc = "call"],
                               CleanFrame(e.node, t))]
               ELSE IF e.type = "File"
               THEN [s EXCEPT !.stack[Len(s.stack)].pc = "stat"]
               ELSE CleanAdvance(
                      [s EXCEPT !.stack[Len(s.stack)] =
                         [top EXCEPT !.entries = Tail(@), !.deletedAll = FALSE]], t)

\* what the steps of _cleanCache leave alone
SweepFrame ==
  <<retryVars, clientVars, listVars, uploadVars, CACHE_DIR, ic, now, gc>>

SweepTop ==
  sw.stack[Len(sw.stack)]

\* The sweep state after the running activation went on to s.
SweepAfter(s) ==
  [sw EXCEPT !.stack = s.stack,
             !.returns = s.returns,
             !.result = s.result,
             !.pc = IF s.stack = <<>> THEN "done" ELSE "running"]

SweepView ==
  [stack |-> sw.stack, pending |-> pendingDeletes, returns |-> sw.returns,
   result |-> sw.result]

\* _cleanCache(CACHE_DIR) is entered: expireTime is taken and readDirectory
\* is awaited.
SweepEnter(caller) ==
  [SweepIdle EXCEPT !.pc = "running", !.caller = caller,
                    !.stack = <<CleanFrame(Root, now)>>,
                    !.start = fs, !.startTime = now]

SweepFailed ==
  [sw EXCEPT !.pc = "failed", !.stack = <<>>]

\* await workspace.fs.readDirectory(dir) completes
SweepReadDirectoryDone ==
  /\ sw.pc = "running"
  /\ SweepTop.pc = "readDirectory"
  /\ IF fs[SweepTop.dir].type = "Directory"
     THEN LET s == CleanAdvance(
                     [SweepView EXCEPT !.stack[Len(sw.stack)] =
                        [SweepTop EXCEPT !.entries = readDirectory(fs, SweepTop.dir),
                                         !.pc = "loop"]], now)
          IN /\ sw' = SweepAfter(s)
             /\ pendingDeletes' = s.pending
     ELSE /\ sw' = SweepFailed
          /\ UNCHANGED pendingDeletes
  /\ UNCHANGED <<fs, SweepFrame>>

\* await workspace.fs.stat(fileUri) completes: an expired file's delete is
\* requested and awaited, a fresh file clears deletedAll.
SweepStatDone ==
  /\ sw.pc = "running"
  /\ SweepTop.pc = "stat"
  /\ LET f == Head(SweepTop.entries).node
     IN IF ~Present(fs, f)
        THEN /\ sw' = SweepFailed
             /\ UNCHANGED pendingDeletes
        ELSE IF IsExpired(fs[f].mtime, SweepTop.expireTime)
        THEN /\ sw' = [sw EXCEPT !.stack[Len(sw.stack)].pc = "delete"]
             /\ UNCHANGED pendingDeletes
        ELSE LET s == CleanAdvance(
                        [SweepView EXCEPT !.stack[Len(sw.stack)] =
                           [SweepTop EXCEPT !.entries = Tail(@),
                                            !.deletedAll = FALSE,
                                            !.pc = "loop"]], now)
             IN /\ sw' = SweepAfter(s)
                /\ pendingDeletes' = s.pending
  /\ UNCHANGED <<fs, SweepFrame>>

\* await workspace.fs.delete(fileUri) of an expired file completes
SweepDeleteDone ==
  /\ sw.pc = "running"
  /\ SweepTop.pc = "delete"
  /\ LET f == Head(SweepTop.entries).node
     IN IF ~Present(fs, f)
        THEN /\ sw' = SweepFailed
             /\ UNCHANGED <<fs, pendingDeletes>>
        ELSE LET s == CleanAdvance(
                        [SweepView EXCEPT !.stack[Len(sw.stack)] =
                           [SweepTop EXCEPT !.entries = Tail(@),
                                            !.pc = "loop"]], now)
             IN /\ fs' = deleteFile(fs, f)
                /\ sw' = SweepAfter(s)
                /\ pendingDeletes' = s.pending
  /\ UNCHANGED SweepFrame

\* A directory delete that _cleanCache requested without awaiting it is
\* carried out by the file system, at any later moment.
DirectoryDeleteSettles ==
  \E d \in pendingDeletes :
    /\ fs' = deleteDirectory(fs, d)
    /\ pendingDeletes' = pendingDeletes \ {d}
    /\ UNCHANGED <<sw, SweepFrame>>

\* Time passes.
Tick ==
  /\ now < StartTime + MaxTicks
  /\ now' = now + 1
  /\ UNCHANGED <<retryVars, clientVars, listVars, uploadVars,
                 CACHE_DIR, ic, fs, pendingDeletes, sw, gc>>

\* _cleanCache(CACHE_DIR) is called on its own: the sweep that the
\* writeCacheImage of an uploadImages call of its own runs (line 225), that call
\* not being followed any further.
SweepCall ==
  /\ CACHE_DIR = "set"
  /\ sw.pc \in {"idle", "done", "failed"}
  /\ ~(up.stage = "sweep" /\ sw.caller = "upload")
  /\ sw' = SweepEnter("direct")
  /\ UNCHANGED <<fs, pendingDeletes, SweepFrame>>

(***************************************************************************)
(* initialize_image_cache, getCachedImage, writeCacheImage                 *)
(***************************************************************************)
Calls ==
  {1, 2}

Size8x6 ==
  <<"8", "x", "6">>

Size4x3 ==
  <<"4", "x", "3">>

\* getImageFilename(name, size): `${name}.${size}.webp`
getImageFilename(name, size) ==
  name \o Dot \o size \o Dot \o Webp

ImageInfos ==
  {[name |-> NameA, filename |-> getImageFilename(NameA, Size8x6)],
   [name |-> NameA, filename |-> getImageFilename(NameA, Size4x3)],
   [name |-> NameB, filename |-> getImageFilename(NameB, Size8x6)]}

NoImage ==
  [name |-> <<>>, filename |-> <<>>]

\* Uri.joinPath(CACHE_DIR, folder, `${image.name}.webp`)
CachePath(folder, image) ==
  <<folder, WebpFile(image.name)>>

getImageKey_ByName(folder, image, cfg) ==
  <<cfg.imagesPrefix, folder, WebpFile(image.name)>>

\* getImageKey(folder, image)
getImageKey(folder, image, cfg) ==
  <<cfg.imagesPrefix, folder, image.filename>>

\* getImageUrl(folder, image): `${config.publicUrlBase}/${encodeURI(key)}`.
\* The keys here are made of letters, digits, ".", "-" and "/", which
\* encodeURI leaves as they are.
getImageUrl(folder, image, cfg) ==
  [base |-> cfg.publicUrlBase, key |-> getImageKey(folder, image, cfg)]

\* the bytes the public URL serves
RemoteBytes(url) ==
  [kind |-> "bytes", from |-> url]

FetchStatuses ==
  {200, 404, 503}

CacheDirNotSet ==
  "Cache dir is not set"

CacheDirIsSet_Unchecked(cacheDir) ==
  TRUE

\* if (!CACHE_DIR) throw new Error("Cache dir is not set")
CacheDirIsSet(cacheDir) ==
  cacheDir # "null"

CacheHit_Always(f, path) ==
  TRUE

CacheHit_Never(f, path) ==
  FALSE

\* await workspace.fs.stat(fileUri) succeeds: exists = true
CacheHit(f, path) ==
  Present(f, path)

RunsSweep_Never(skipClean) ==
  FALSE

RunsSweep_Always(skipClean) ==
  TRUE

\* writeCacheImage: if (!skipClean) await _cleanCache(CACHE_DIR)
RunsSweep(skipClean) ==
  ~skipClean

ResponseOk_Always(status) ==
  TRUE

\* response.status >= 400 throws "Image not found"
ResponseOk(status) ==
  status < 400

\* Error("Image not found: " + imageUrl), less the URL
ImageNotFound ==
  "Image not found"

\* the error a rejected fetch(url) throws
FetchFailed ==
  "TypeError: fetch failed"

\* One getCachedImage call.  fetches, stats, mkdirs, writes count the fetch
\* and file system requests the call has issued; miss records that its stat
\* found no file; fetched how its fetch settled ("none", "response" with
\* status, or "rejected"); after the calls that had returned, and afterFailed
\* the calls that had failed, when this one began.
CallIdle ==
  [pc |-> "idle", folder |-> <<>>, image |-> NoImage, result |-> Root,
   error |-> "", content |-> NoBytes, miss |-> FALSE,
   fetched |-> "none", status |-> NoStatus,
   fetches |-> 0, stats |-> 0, mkdirs |-> 0, writes |-> 0, after |-> {},
   afterFailed |-> {}]

\* initialize_image_cache(context): CACHE_DIR is assigned, then the directory
\* is created.
InitializeCall ==
  /\ ic = "idle"
  /\ CACHE_DIR' = "set"
  /\ ic' = "createDirectory"
  /\ UNCHANGED <<retryVars, clientVars, listVars, uploadVars,
                 fs, now, pendingDeletes, sw, gc>>

InitializeCreateDirectoryDone ==
  /\ ic = "createDirectory"
  /\ fs' = createDirectory(fs, Root)
  /\ ic' = "done"
  /\ UNCHANGED <<retryVars, clientVars, listVars, uploadVars,
                 CACHE_DIR, now, pendingDeletes, sw, gc>>

GcFrame ==
  <<retryVars, clientVars, listVars, uploadVars, CACHE_DIR, ic, now,
    pendingDeletes, sw>>

\* getCachedImage(folder, image) up to its first await.  sequential says
\* whether a call starts only when no other call is in progress.
GetCachedImageEnter(c, folder, image, sequential) ==
  /\ gc[c].pc \in {"idle", "done", "failed"}
  /\ sequential => \A d \in Calls : gc[d].pc \in {"idle", "done", "failed"}
  /\ gc' = [d \in Calls |->
              IF d = c
              THEN IF CacheDirIsSet(CACHE_DIR)
                   THEN [CallIdle EXCEPT
                           !.pc = "stat", !.folder = folder, !.image = image,
                           !.stats = 1,
                           !.after = {e \in Calls \ {c} : gc[e].pc = "done"},
                           !.afterFailed =
                              {e \in Calls \ {c} : gc[e].pc = "failed"}]
                   ELSE [CallIdle EXCEPT
                           !.pc = "failed", !.folder = folder, !.image = image,
                           !.error = CacheDirNotSet]
              ELSE [gc[d] EXCEPT !.after = @ \ {c},
                                 !.afterFailed = @ \ {c}]]
  /\ UNCHANGED <<fs, GcFrame>>

GetCachedImageCall ==
  \E c \in Calls, folder \in Folders, image \in ImageInfos :
    GetCachedImageEnter(c, folder, image, TRUE)

\* getCachedImage is called while other calls may be suspended at an await
GetCachedImageOverlappingCall ==
  \E c \in Calls, folder \in Folders, image \in ImageInfos :
    GetCachedImageEnter(c, folder, image, FALSE)

\* await workspace.fs.stat(fileUri) settles: on a hit the call returns
\* fileUri, on FileNotFound it fetches the image URL.
GcStatDone ==
  \E c \in Calls :
    /\ gc[c].pc = "stat"
    /\ gc' = [gc EXCEPT ![c] =
                IF CacheHit(fs, CachePath(gc[c].folder, gc[c].image))
                THEN [@ EXCEPT !.pc = "done",
                               !.result = CachePath(gc[c].folder, gc[c].image)]
                ELSE [@ EXCEPT !.pc = "fetch", !.miss = TRUE,
                               !.fetches = @ + 1]]
    /\ UNCHANGED <<fs, GcFrame>>

\* await fetch(url) fulfils with a response of some status
GcFetchResponds ==
  \E c \in Calls, status \in FetchStatuses :
    /\ gc[c].pc = "fetch"
    /\ gc' = [gc EXCEPT ![c] =
                IF ResponseOk(status)
                THEN [@ EXCEPT !.pc = "body", !.fetched = "response",
                               !.status = status]
                ELSE [@ EXCEPT !.pc = "failed", !.fetched = "response",
                               !.status = status, !.error = ImageNotFound]]
    /\ UNCHANGED <<fs, GcFrame>>

\* await fetch(url) rejects: the transport error leaves getCachedImage as it is
GcFetchRejects ==
  \E c \in Calls :
    /\ gc[c].pc = "fetch"
    /\ gc' = [gc EXCEPT ![c] = [@ EXCEPT !.pc = "failed",
                                         !.fetched = "rejected",
                                         !.error = FetchFailed]]
    /\ UNCHANGED <<fs, GcFrame>>

\* await response.blob() and await imageBlob.bytes() complete, and
\* writeCacheImage(folder, image, bytes, true) runs to its first await.
GcBodyDone ==
  \E c \in Calls :
    /\ gc[c].pc = "body"
    /\ gc' = [gc EXCEPT ![c] =
                LET bytes == RemoteBytes(getImageUrl(gc[c].folder, gc[c].image, config))
                IN IF CacheDirIsSet(CACHE_DIR)
                   THEN [@ EXCEPT !.pc = "createDirectory", !.content = bytes,
                                  !.mkdirs = @ + 1]
                   ELSE [@ EXCEPT !.pc = "failed", !.content = bytes,
                                  !.error = CacheDirNotSet]]
    /\ UNCHANGED <<fs, GcFrame>>

\* writeCacheImage: await workspace.fs.createDirectory(dirUri) completes
GcCreateDirectoryDone ==
  \E c \in Calls :
    /\ gc[c].pc = "createDirectory"
    /\ fs' = createDirectory(fs, <<gc[c].folder>>)
    /\ gc' = [gc EXCEPT ![c] = [@ EXCEPT !.pc = "writeFile", !.writes = @ + 1]]
    /\ UNCHANGED GcFrame

\* writeCacheImage: await workspace.fs.writeFile(fileUri, content) completes;
\* getCachedImage passed skipClean = true, so writeCacheImage and
\* getCachedImage return.
GcWriteFileDone ==
  \E c \in Calls :
    /\ gc[c].pc = "writeFile"
    /\ fs' = writeFile(fs, CachePath(gc[c].folder, gc[c].image), gc[c].content, now)
    /\ IF RunsSweep(TRUE)
       THEN /\ gc' = [gc EXCEPT ![c] = [@ EXCEPT !.pc = "sweep"]]
            /\ sw' = [SweepEnter("getCachedImage") EXCEPT !.start = fs']
       ELSE /\ gc' = [gc EXCEPT ![c] =
                       [@ EXCEPT !.pc = "done",
                                 !.result = CachePath(gc[c].folder, gc[c].image)]]
            /\ sw' = sw
    /\ UNCHANGED <<retryVars, clientVars, listVars, uploadVars, CACHE_DIR, ic,
                   now, pendingDeletes>>

(***************************************************************************)
(* parseImageInfo, uploadImage, uploadImages                               *)
(***************************************************************************)
Digits ==
  {"0", "1", "2", "3", "4", "5", "6", "7", "8", "9"}

\* s.lastIndexOf(ch) + 1: the 1-based position of the last ch, 0 if none
LastIndexOf(str, ch) ==
  LET at == {i \in 1..Len(str) : str[i] = ch}
  IN IF at = {} THEN 0 ELSE CHOOSE i \in at : \A j \in at : j <= i

\* str matches \d+x\d+
IsSize(str) ==
  \E k \in 2..(Len(str) - 1) :
    /\ str[k] = "x"
    /\ \A i \in (1..Len(str)) \ {k} : str[i] \in Digits

NoParse ==
  [kind |-> "null"]

\* parseImageInfo(imageFilename): IMAGE_FILENAME_PATTERN
\*   /^(.*?)(?:\.\d+x\d+)?\.[^.]+$/
\* applied to the text after the last "/".  The pattern matches iff the text
\* has a dot that is not its last character; group 1 is the text before the
\* last dot, less a trailing .<digits>x<digits> if there is one.
parseImageInfo(imageFilename) ==
  LET base == SubSeq(imageFilename, LastIndexOf(imageFilename, "/") + 1,
                     Len(imageFilename))
      lastDot == LastIndexOf(base, ".")
      stem == SubSeq(base, 1, lastDot - 1)
      sizeDot == LastIndexOf(stem, ".")
  IN IF lastDot = 0 \/ lastDot = Len(base)
     THEN NoParse
     ELSE [filename |-> base,
           name |-> IF sizeDot > 0 /\ IsSize(SubSeq(stem, sizeDot + 1, Len(stem)))
                    THEN SubSeq(stem, 1, sizeDot - 1)
                    ELSE stem]

\* the longest filename given to parseImageInfo
MaxFilenameLen ==
  5

\* the characters of the filenames: a letter, the dot, a digit, the x of a
\* size, and the path separator
FilenameChars ==
  {"a", ".", "8", "x", "/"}

Filenames ==
  UNION {[1..n -> FilenameChars] : n \in 0..MaxFilenameLen}

ParseIdle ==
  [pc |-> "idle", imageFilename |-> <<>>, result |-> NoParse]

\* parseImageInfo(imageFilename) is called and returns
ParseImageInfoCall ==
  /\ pi.pc = "idle"
  /\ \E imageFilename \in Filenames :
       pi' = [pc |-> "returned", imageFilename |-> imageFilename,
              result |-> parseImageInfo(imageFilename)]
  /\ UNCHANGED up
  /\ UNCHANGED <<retryVars, clientVars, listVars, cacheVars>>

\* str.replaceAll("%s", name), the format being a sequence of characters in
\* which the placeholder is the one element "%s"
RECURSIVE ReplaceAll(_, _)
ReplaceAll(format, name) ==
  IF format = <<>> THEN <<>>
  ELSE (IF Head(format) = "%s" THEN name ELSE <<Head(format)>>)
       \o ReplaceAll(Tail(format), name)

\* getPreviewImageKey(folder, image)
getPreviewImageKey(folder, image, cfg) ==
  <<cfg.imagesPrefix, folder,
    WebpFile(ReplaceAll(cfg.previewImageBaseNameFormat, image.name))>>

MaxUris ==
  2

UriPaths ==
  {<<"/", "p", "/", "a", ".", "j", "p", "g">>,
   <<"/", "p", "/", "b", ".", "8", "x", "6", ".", "p", "n", "g">>,
   <<"/", "p", "/", "n", "o", "e", "x", "t">>}

Uris ==
  [path : UriPaths]

UploadFolders ==
  {Trip}

UriLists ==
  UNION {[1..n -> Uris] : n \in 0..MaxUris}

\* writeObject(bucket, key, body, contentType, metadata): the put it makes
writeObject(bucket, key) ==
  [event |-> "put", Bucket |-> bucket, Key |-> key]

UploadIdle ==
  [pc |-> "idle", folder |-> <<>>, imageUris |-> <<>>, i |-> 1,
   stage |-> "next", results |-> <<>>, image |-> NoImage,
   log |-> <<>>, failed |-> {}, sweepAt |-> 0]

\* results.push({ imageUri: uri, status: "SUCCESS", image: imageName })
UploadOnSuccess(u) ==
  [u EXCEPT !.results = Append(@, [imageUri |-> u.imageUris[u.i],
                                   status |-> "SUCCESS",
                                   image |-> u.image]),
            !.log = Append(@, [event |-> "end", item |-> u.i]),
            !.i = @ + 1,
            !.stage = "next"]

\* String(e) of an Error with the message e
ErrorString(e) ==
  "Error: " \o e

UploadOnError_Abort(u, e) ==
  [u EXCEPT !.results = Append(@, [imageUri |-> u.imageUris[u.i],
                                   status |-> "ERROR",
                                   error |-> ErrorString(e)]),
            !.log = Append(@, [event |-> "end", item |-> u.i]),
            !.failed = @ \cup {u.i},
            !.i = Len(u.imageUris) + 1,
            !.stage = "next"]

\* catch (e) { results.push({ imageUri: uri, status: "ERROR", error: String(e) }) }
UploadOnError(u, e) ==
  [u EXCEPT !.results = Append(@, [imageUri |-> u.imageUris[u.i],
                                   status |-> "ERROR",
                                   error |-> ErrorString(e)]),
            !.log = Append(@, [event |-> "end", item |-> u.i]),
            !.failed = @ \cup {u.i},
            !.i = @ + 1,
            !.stage = "next"]

UploadFrame ==
  <<retryVars, clientVars, listVars, CACHE_DIR, ic, now, pendingDeletes, gc,
    pi>>

\* uploadImages(folder, imageUris, config) is called.
UploadImagesCall ==
  /\ up.pc \in {"idle", "done"}
  /\ \E folder \in UploadFolders, uris \in UriLists :
       up' = [UploadIdle EXCEPT !.pc = "running", !.folder = folder,
                                !.imageUris = uris]
  /\ UNCHANGED <<fs, sw, UploadFrame>>

\* The for loop takes the next uri and uploadImage runs to its first await:
\* parseImageInfo(imageUri.path)?.name, and "Cannot parse image name" when
\* there is no match or the name is empty.  After the last uri the results are
\* returned.
UploadNextItem ==
  /\ up.pc = "running"
  /\ up.stage = "next"
  /\ IF up.i > Len(up.imageUris)
     THEN up' = [up EXCEPT !.pc = "done"]
     ELSE LET parsed == parseImageInfo(up.imageUris[up.i].path)
              u1 == [up EXCEPT !.log = Append(@, [event |-> "start", item |-> up.i])]
          IN IF parsed = NoParse \/ parsed.name = <<>>
             THEN up' = UploadOnError(u1, "Cannot parse image name")
             ELSE up' = [u1 EXCEPT !.stage = "convert",
                                   !.image = [name |-> parsed.name,
                                              filename |-> <<>>]]
  /\ UNCHANGED <<fs, sw, UploadFrame>>

\* await convertImage(imageUri, config) settles
UploadConvertDone ==
  /\ up.pc = "running"
  /\ up.stage = "convert"
  /\ \/ \E size \in {Size8x6} :
          up' = [up EXCEPT !.stage = "putImage",
                           !.image.filename = getImageFilename(up.image.name, size)]
     \/ up' = UploadOnError(up, "convertImage failed")
  /\ UNCHANGED <<fs, sw, UploadFrame>>

\* await writeObject(bucket, getImageKey(folder, imageInfo), ...) settles
UploadPutImageDone ==
  /\ up.pc = "running"
  /\ up.stage = "putImage"
  /\ \/ up' = [up EXCEPT
                 !.stage = "putPreview",
                 !.log = Append(@, writeObject(config.imagesBucket,
                                     getImageKey(up.folder, up.image, config)))]
     \/ up' = UploadOnError(up, "writeObject failed")
  /\ UNCHANGED <<fs, sw, UploadFrame>>

\* await writeObject(bucket, getPreviewImageKey(folder, imageInfo), ...)
\* settles; then writeCacheImage(folder, imageInfo, converted.image) runs to
\* its first await.
UploadPutPreviewDone ==
  /\ up.pc = "running"
  /\ up.stage = "putPreview"
  /\ \/ LET u1 == [up EXCEPT
                       !.log = Append(@, writeObject(config.imagesBucket,
                                 getPreviewImageKey(up.folder, up.image, config)))
                              \o <<[event |-> "writeCacheImage", item |-> up.i]>>]
        IN up' = IF CacheDirIsSet(CACHE_DIR)
                 THEN [u1 EXCEPT !.stage = "createDirectory"]
                 ELSE UploadOnError(u1, CacheDirNotSet)
     \/ up' = UploadOnError(up, "writeObject failed")
  /\ UNCHANGED <<fs, sw, UploadFrame>>

\* writeCacheImage: await workspace.fs.createDirectory(dirUri) completes
UploadCreateDirectoryDone ==
  /\ up.pc = "running"
  /\ up.stage = "createDirectory"
  /\ fs' = createDirectory(fs, <<up.folder>>)
  /\ up' = [up EXCEPT !.stage = "writeFile"]
  /\ UNCHANGED <<sw, UploadFrame>>

\* writeCacheImage: await workspace.fs.writeFile(fileUri, content) completes;
\* uploadImage left skipClean at its default false, so _cleanCache(CACHE_DIR)
\* is entered: it takes expireTime and awaits readDirectory.  sw follows one
\* run of _cleanCache at a time: when the _cleanCache of another
\* writeCacheImage is running, the steps of the one entered here are followed
\* after that one has settled (UploadSweepFollows), its readDirectory being
\* outstanding until then.
UploadWriteFileDone ==
  /\ up.pc = "running"
  /\ up.stage = "writeFile"
  /\ fs' = writeFile(fs, CachePath(up.folder, up.image),
                     [kind |-> "converted", of |-> up.imageUris[up.i]], now)
  /\ LET u1 == [up EXCEPT !.log = Append(@, [event |-> "writeFile",
                                             item |-> up.i])]
     IN IF RunsSweep(FALSE)
        THEN /\ up' = [u1 EXCEPT !.stage = "sweep",
                                 !.sweepAt = now,
                                 !.log = Append(@, [event |-> "sweep",
                                                    item |-> up.i])]
             /\ sw' = IF sw.pc = "running"
                      THEN sw
                      ELSE [SweepEnter("upload") EXCEPT !.start = fs']
        ELSE /\ up' = UploadOnSuccess(u1)
             /\ sw' = sw
  /\ UNCHANGED UploadFrame

\* The _cleanCache(CACHE_DIR) that writeCacheImage entered while another one
\* was running: its steps are followed from here, with the expireTime it took
\* when it was entered.
UploadSweepFollows ==
  /\ up.pc = "running"
  /\ up.stage = "sweep"
  /\ sw.caller # "upload"
  /\ sw.pc \in {"done", "failed"}
  /\ sw' = [SweepEnter("upload") EXCEPT
              !.stack = <<CleanFrame(Root, up.sweepAt)>>,
              !.startTime = up.sweepAt]
  /\ UNCHANGED <<fs, up, UploadFrame>>

\* await _cleanCache(CACHE_DIR) settles: uploadImage returns imageInfo, or
\* rejects with the error of the sweep.
UploadSweepReturns ==
  /\ up.pc = "running"
  /\ up.stage = "sweep"
  /\ sw.caller = "upload"
  /\ \/ /\ sw.pc = "done"
        /\ up' = UploadOnSuccess(up)
     \/ /\ sw.pc = "failed"
        /\ up' = UploadOnError(up, "sweep failed")
  /\ UNCHANGED <<fs, sw, UploadFrame>>

(***************************************************************************)
(* Initial states and specifications                                       *)
(***************************************************************************)
ClientInit ==
  /\ config = DefaultConfig
  /\ cachedClient = NoClient
  /\ cachedConfig = NoConfig
  /\ clients = 0
  /\ destroyed = {}
  /\ cl = NoCall

ListInit ==
  /\ lk = ListIdle
  /\ tc = TestIdle
  /\ store = [entries |-> 0, prefixEvery |-> 0]

ParentClosed(P) ==
  \A n \in P : n = Root \/ Parent(n) \in P

\* the tree with the nodes P, the files among them last modified at m[n]
TreeOf(P, m) ==
  [n \in Nodes |->
     IF n \in P
     THEN [type |-> NodeType(n),
           mtime |-> IF NodeType(n) = "File" THEN m[n] ELSE 0,
           content |-> IF NodeType(n) = "File"
                       THEN [kind |-> "kept"] ELSE NoBytes]
     ELSE Absent]

EmptyDisk ==
  [n \in Nodes |-> Absent]

Stale ==
  StartTime - ExpireAge - 1

Boundary ==
  StartTime - ExpireAge

Fresh ==
  StartTime

FileNodes ==
  {n \in Nodes : NodeType(n) = "File"}

\* the trees the cache directory may hold when a sweep begins
SweepTrees ==
  {TreeOf(P \cup {Root}, m) :
     <<P, m>> \in {pm \in (SUBSET (Nodes \ {Root, <<Home, WebpFile(NameB)>>}))
                          \X [FileNodes -> {Stale, Boundary, Fresh}] :
                     /\ ParentClosed(pm[1] \cup {Root})
                     /\ \A n \in FileNodes : n \notin pm[1] => pm[2][n] = Stale}}

CacheInit ==
  /\ CACHE_DIR = "null"
  /\ ic = "idle"
  /\ now = StartTime
  /\ pendingDeletes = {}
  /\ sw = SweepIdle
  /\ gc = [c \in Calls |-> CallIdle]

UploadInit ==
  /\ up = UploadIdle
  /\ pi = ParseIdle

InitRetry ==
  /\ rt = RetryIdle
  /\ ClientInit
  /\ ListInit
  /\ CacheInit
  /\ fs = EmptyDisk
  /\ UploadInit

NextRetry ==
  \/ RetryCall
  \/ RetryOperationFails
  \/ RetryOperationSucceeds
  \/ RetryDelayElapsed

SpecRetry ==
  InitRetry /\ [][NextRetry]_vars

\* getS3Client calls, clearClientCache calls and changes of the settings
InitClient ==
  /\ rt = RetryIdle
  /\ ClientInit
  /\ ListInit
  /\ UploadInit
  /\ CacheInit
  /\ fs = EmptyDisk

NextClient ==
  \/ ConfigChange
  \/ GetS3ClientCall
  \/ ClearClientCacheCall

SpecClient ==
  InitClient /\ [][NextClient]_vars

InitList ==
  /\ rt = RetryIdle
  /\ ClientInit
  /\ lk = ListIdle
  /\ tc = TestIdle
  /\ store \in Stores
  /\ CacheInit
  /\ fs = EmptyDisk
  /\ UploadInit

NextList ==
  \/ ListKeysCall
  \/ ListPageFails
  \/ ListPageArrives
  \/ RetryDelayElapsed

SpecList ==
  InitList /\ [][NextList]_vars

\* The store answers every request, with a page or with an error, and the
\* timer of withRetry fires.
SpecListFair ==
  /\ SpecList
  /\ WF_vars(ListPageArrives \/ ListPageFails)
  /\ WF_vars(RetryDelayElapsed)

\* listDirectories and listKeys calls in a session in which either no client
\* has been made yet, or one was cached by an earlier call and the user may
\* have changed the imagesPrefix setting since.
InitDirs ==
  /\ rt = RetryIdle
  /\ \E current \in SettingValues.imagesPrefix :
       /\ config = [DefaultConfig EXCEPT !.imagesPrefix = current]
       /\ \/ /\ cachedClient = NoClient
             /\ cachedConfig = NoConfig
             /\ clients = 0
             /\ cl = NoCall
          \/ \E earlier \in SettingValues.imagesPrefix :
               /\ cachedClient = 1
               /\ cachedConfig = [DefaultConfig EXCEPT !.imagesPrefix = earlier]
               /\ clients = 1
               /\ cl = [calls |-> 1, forceNew |-> FALSE, returned |-> 1,
                        quiet |-> earlier = current]
  /\ destroyed = {}
  /\ lk = ListIdle
  /\ tc = TestIdle
  /\ store \in Stores
  /\ CacheInit
  /\ fs = EmptyDisk
  /\ UploadInit

NextDirs ==
  \/ ListDirectoriesCall
  \/ ListDirectoriesPageFails
  \/ ListDirectoriesPageArrives
  \/ ListKeysCall
  \/ ListPageFails
  \/ ListPageArrives
  \/ RetryDelayElapsed

SpecDirs ==
  InitDirs /\ [][NextDirs]_vars

\* parseImageInfo applied to every short filename
InitParse ==
  /\ rt = RetryIdle
  /\ ClientInit
  /\ ListInit
  /\ CacheInit
  /\ fs = EmptyDisk
  /\ UploadInit

NextParse ==
  ParseImageInfoCall

SpecParse ==
  InitParse /\ [][NextParse]_vars

\* testConnection calls against a store that may fail
InitTest ==
  /\ rt = RetryIdle
  /\ config \in {DefaultConfig,
                  [DefaultConfig EXCEPT !.s3EndpointUrl = "https://r2.example"]}
  /\ cachedClient = NoClient
  /\ cachedConfig = NoConfig
  /\ clients = 0
  /\ destroyed = {}
  /\ cl = NoCall
  /\ lk = ListIdle
  /\ tc = TestIdle
  /\ store \in Stores
  /\ CacheInit
  /\ fs = EmptyDisk
  /\ UploadInit

NextTest ==
  \/ TestConnectionCall
  \/ ListPageFails
  \/ ListPageArrives
  \/ RetryDelayElapsed
  \/ TestConnectionListingSettles

SpecTest ==
  InitTest /\ [][NextTest]_vars

\* _cleanCache on its own, on every tree: the cache is initialised.
InitSweep ==
  /\ rt = RetryIdle
  /\ ClientInit
  /\ ListInit
  /\ UploadInit
  /\ CACHE_DIR = "set"
  /\ ic = "done"
  /\ now = StartTime
  /\ pendingDeletes = {}
  /\ sw = SweepIdle
  /\ gc = [c \in Calls |-> CallIdle]
  /\ fs \in SweepTrees

NextSweep ==
  \/ SweepCall
  \/ SweepReadDirectoryDone
  \/ SweepStatDone
  \/ SweepDeleteDone
  \/ DirectoryDeleteSettles
  \/ Tick

SpecSweep ==
  InitSweep /\ [][NextSweep]_vars

\* the trees the cache directory may hold when the extension is activated:
\* nothing, or what earlier sessions left
CacheTrees ==
  {EmptyDisk,
   TreeOf({Root, <<Trip>>, <<Trip, WebpFile(NameA)>>,
           <<Home>>, <<Home, WebpFile(NameB)>>},
          [n \in FileNodes |-> IF n[1] = Trip THEN Fresh ELSE Stale]),
   TreeOf({Root, <<Trip>>, <<Trip, Old>>, <<Trip, Old, WebpFile(NameA)>>,
           <<Trip, WebpFile(NameB)>>, <<Home>>},
          [n \in FileNodes |-> IF Len(n) = 3 THEN Boundary ELSE Stale])}

\* getCachedImage calls, one at a time, and no sweep.
InitCache ==
  /\ rt = RetryIdle
  /\ ClientInit
  /\ ListInit
  /\ UploadInit
  /\ CacheInit
  /\ fs \in CacheTrees

NextCache ==
  \/ InitializeCall
  \/ InitializeCreateDirectoryDone
  \/ GetCachedImageCall
  \/ GcStatDone
  \/ GcFetchResponds
  \/ GcFetchRejects
  \/ GcBodyDone
  \/ GcCreateDirectoryDone
  \/ GcWriteFileDone

SpecCache ==
  InitCache /\ [][NextCache]_vars

\* listKeys and listDirectories calls with, between their pages, changes of
\* the region setting, getS3Client calls and clearClientCache calls.
InitInFlight ==
  /\ rt = RetryIdle
  /\ ClientInit
  /\ lk = ListIdle
  /\ tc = TestIdle
  /\ store \in {st \in Stores : st.entries = 5}
  /\ CacheInit
  /\ fs = EmptyDisk
  /\ UploadInit

NextInFlight ==
  \/ ListKeysCall
  \/ ListPageFails
  \/ ListPageArrives
  \/ ListDirectoriesCall
  \/ ListDirectoriesPageFails
  \/ ListDirectoriesPageArrives
  \/ RetryDelayElapsed
  \/ /\ ConfigChange
     /\ config'.region # config.region
  \/ GetS3ClientCall
  \/ ClearClientCacheCall

SpecInFlight ==
  InitInFlight /\ [][NextInFlight]_vars

\* listKeys and listDirectories calls with changes of the imagesBucket and
\* imagesPrefix settings between them and between their pages.
InitSnapshot ==
  /\ rt = RetryIdle
  /\ ClientInit
  /\ lk = ListIdle
  /\ tc = TestIdle
  /\ store \in {st \in Stores : st.entries = 5}
  /\ CacheInit
  /\ fs = EmptyDisk
  /\ UploadInit

NextSnapshot ==
  \/ /\ ListKeysCall
     /\ lk'.maxKeys = 3
  \/ ListPageFails
  \/ ListPageArrives
  \/ ListDirectoriesCall
  \/ ListDirectoriesPageFails
  \/ ListDirectoriesPageArrives
  \/ RetryDelayElapsed
  \/ /\ ConfigChange
     /\ \/ config'.imagesBucket # config.imagesBucket
        \/ config'.imagesPrefix # config.imagesPrefix

SpecSnapshot ==
  InitSnapshot /\ [][NextSnapshot]_vars

\* getCachedImage calls that overlap, on an initialised cache, and no sweep.
InitMisses ==
  /\ rt = RetryIdle
  /\ ClientInit
  /\ ListInit
  /\ UploadInit
  /\ CACHE_DIR = "set"
  /\ ic = "done"
  /\ now = StartTime
  /\ pendingDeletes = {}
  /\ sw = SweepIdle
  /\ gc = [c \in Calls |-> CallIdle]
  /\ fs \in {createDirectory(f, Root) : f \in CacheTrees}

NextMisses ==
  \/ GetCachedImageOverlappingCall
  \/ GcStatDone
  \/ GcFetchResponds
  \/ GcFetchRejects
  \/ GcBodyDone
  \/ GcCreateDirectoryDone
  \/ GcWriteFileDone

SpecMisses ==
  InitMisses /\ [][NextMisses]_vars

\* uploadImages batches, each cache write followed by its sweep.
InitUpload ==
  /\ rt = RetryIdle
  /\ ClientInit
  /\ ListInit
  /\ UploadInit
  /\ CacheInit
  /\ fs \in CacheTrees

NextUpload ==
  \/ InitializeCall
  \/ InitializeCreateDirectoryDone
  \/ UploadImagesCall
  \/ UploadNextItem
  \/ UploadConvertDone
  \/ UploadPutImageDone
  \/ UploadPutPreviewDone
  \/ UploadCreateDirectoryDone
  \/ UploadWriteFileDone
  \/ UploadSweepReturns
  \/ SweepReadDirectoryDone
  \/ SweepStatDone
  \/ SweepDeleteDone
  \/ DirectoryDeleteSettles

SpecUpload ==
  InitUpload /\ [][NextUpload]_vars

\* A session that reads images through the cache, or one that uploads.
InitWrites ==
  /\ rt = RetryIdle
  /\ ClientInit
  /\ ListInit
  /\ UploadInit
  /\ CacheInit
  /\ fs \in CacheTrees

NextWrites ==
  \/ InitializeCall
  \/ InitializeCreateDirectoryDone
  \/ /\ up.pc = "idle"
     /\ \/ GetCachedImageCall
        \/ GcStatDone
        \/ GcFetchResponds
        \/ GcFetchRejects
        \/ GcBodyDone
        \/ GcCreateDirectoryDone
        \/ GcWriteFileDone
  \/ /\ \A c \in Calls : gc[c].pc = "idle"
     /\ \/ UploadImagesCall
        \/ UploadNextItem
        \/ UploadConvertDone
        \/ UploadPutImageDone
        \/ UploadPutPreviewDone
        \/ UploadCreateDirectoryDone
        \/ UploadWriteFileDone
        \/ UploadSweepReturns
        \/ SweepReadDirectoryDone
        \/ SweepStatDone
        \/ SweepDeleteDone
        \/ DirectoryDeleteSettles

SpecWrites ==
  InitWrites /\ [][NextWrites]_vars

\* The trees a sweep that a cache write overlaps begins on
OverlapTrees ==
  {TreeOf(P \cup {Root}, m) :
     <<P, m>> \in {pm \in (SUBSET {<<Trip>>, <<Trip, Old>>, <<Trip, Lnk>>,
                                   <<Trip, WebpFile(NameA)>>})
                          \X [FileNodes -> {Stale, Boundary, Fresh}] :
                     /\ ParentClosed(pm[1] \cup {Root})
                     /\ \A n \in FileNodes :
                          n # <<Trip, WebpFile(NameA)>> => pm[2][n] = Stale
                     /\ <<Trip, WebpFile(NameA)>> \notin pm[1]
                          => pm[2][<<Trip, WebpFile(NameA)>>] = Stale}}

\* Sweeps and the cache writes of an uploadImages call that overlap them: the
\* commands that call uploadImages (images_tree.ts, handleDrop and addImages)
\* do not wait for one another.
InitOverlap ==
  /\ rt = RetryIdle
  /\ ClientInit
  /\ ListInit
  /\ UploadInit
  /\ CACHE_DIR = "set"
  /\ ic = "done"
  /\ now = StartTime
  /\ pendingDeletes = {}
  /\ sw = SweepIdle
  /\ gc = [c \in Calls |-> CallIdle]
  /\ fs \in OverlapTrees

NextOverlap ==
  \/ SweepCall
  \/ SweepReadDirectoryDone
  \/ SweepStatDone
  \/ SweepDeleteDone
  \/ DirectoryDeleteSettles
  \/ Tick
  \/ /\ UploadImagesCall
     /\ Len(up'.imageUris) = 1
     /\ up'.imageUris[1].path = <<"/", "p", "/", "a", ".", "j", "p", "g">>
  \/ UploadNextItem
  \/ UploadConvertDone
  \/ UploadPutImageDone
  \/ UploadPutPreviewDone
  \/ UploadCreateDirectoryDone
  \/ UploadWriteFileDone
  \/ UploadSweepFollows
  \/ UploadSweepReturns

SpecOverlap ==
  InitOverlap /\ [][NextOverlap]_vars

\* The extension before initialize_image_cache has been called: CACHE_DIR
\* stays null, and these are the steps its operations can take.  None of them
\* touches the file system, so one tree stands for all.
InitUninit ==
  /\ rt = RetryIdle
  /\ ClientInit
  /\ ListInit
  /\ UploadInit
  /\ CacheInit
  /\ fs = EmptyDisk

NextUninit ==
  \/ GetCachedImageCall
  \/ UploadImagesCall
  \/ UploadNextItem
  \/ UploadConvertDone
  \/ UploadPutImageDone
  \/ UploadPutPreviewDone

SpecUninit ==
  InitUninit /\ [][NextUninit]_vars

(***************************************************************************)
(* Properties of withRetry                                                 *)
(***************************************************************************)

\* C1: when every attempt of a withRetry call with maxRetries = n failed with a
\* Retryable error and the call has rejected, the operation was invoked exactly
\* n + 1 times and the call rejected with the very error the last attempt
\* threw; no call ever invokes the operation more than n + 1 times.
ThmC1_RetryableExhausts ==
  /\ rt.calls <= rt.maxRetries + 1
  /\ (rt.pc = "rejected" /\ rt.allRetryable) =>
       /\ rt.calls = rt.maxRetries + 1
       /\ rt.rejection = rt.lastThrown

WitC1_RetryableExhausts ==
  /\ rt.pc = "rejected"
  /\ rt.allRetryable
  /\ rt.maxRetries = 3
  /\ rt.calls = 4
  /\ rt.firstThrown # rt.lastThrown

\* C2: when the first attempt of a withRetry call failed with an error that
\* isAuthError classifies as Auth, the operation is invoked exactly once and no
\* backoff delay is taken, whatever maxRetries and the other fields are.
CexC2_AuthNeverRetried ==
  (rt.calls >= 1 /\ isAuthError(rt.firstThrown)) =>
    (rt.calls = 1 /\ rt.delays = <<>> /\ rt.pc = "rejected")

\* C3: an attempt that fails with a non-Retryable error ends the call at once:
\* no delay follows it, no further attempt is made and the call rejects with
\* exactly that error; an attempt that succeeds resolves the call with its
\* value, with the operation invoked attempt + 1 times and never again.
ThmC3_FatalAndSuccessStop ==
  /\ (rt.lastThrown # NoError /\ ~isRetryable(rt.lastThrown)) =>
       /\ rt.pc = "rejected"
       /\ rt.rejection = rt.lastThrown
       /\ Len(rt.delays) = rt.calls - 1
  /\ rt.lastReturned # NoValue =>
       /\ rt.pc = "resolved"
       /\ rt.result = rt.lastReturned
       /\ rt.calls = rt.attempt + 1
       /\ Len(rt.delays) = rt.attempt

WitC3_FatalAndSuccessStop ==
  /\ rt.pc = "rejected"
  /\ rt.calls = 2
  /\ rt.maxRetries = 3
  /\ ~isRetryable(rt.lastThrown)
  /\ isRetryable(rt.firstThrown)

\* C4: the k-th delay of a call (the one taken before attempt k) is
\* baseDelay * 2^(k-1); there is exactly one delay between two consecutive
\* attempts, and none after the final attempt or after a success.
ThmC4_BackoffDelays ==
  /\ \A k \in 1..Len(rt.delays) : rt.delays[k] = rt.baseDelay * 2^(k - 1)
  /\ rt.pc = "delay" => Len(rt.delays) = rt.calls
  /\ rt.pc \in {"operation", "resolved", "rejected"} =>
       Len(rt.delays) = rt.calls - 1

WitC4_BackoffDelays ==
  /\ rt.pc = "rejected"
  /\ rt.baseDelay = DefaultBaseDelay
  /\ rt.delays = <<1000, 2000, 4000>>

(***************************************************************************)
(* Properties of listKeys                                                  *)
(***************************************************************************)

\* C5: when listKeys(bucket, prefix, maxKeys) returns against a store that
\* holds more than maxKeys objects under the prefix, it returns exactly
\* maxKeys keys (so never fewer); in general it returns fewer than maxKeys keys
\* only when it returns every object the store holds.
ThmC5_ListKeysReachesMaxKeys ==
  lk.pc = "done" =>
    /\ StoreObjects(store) > lk.maxKeys => lk.keys = lk.maxKeys
    /\ lk.keys < lk.maxKeys => lk.keys = StoreObjects(store)

WitC5_ListKeysReachesMaxKeys ==
  /\ lk.pc = "done"
  /\ lk.maxKeys = 1001
  /\ StoreObjects(store) > 1001
  /\ lk.pages >= 3
  /\ lk.keys = 1001

\* the requests and the loop condition of listKeys in the current state
ListKeysProtocol ==
  lk.fn = "listKeys" =>
    /\ lk.pc = "page" =>
         /\ lk.request.MaxKeys = Min(lk.maxKeys - lk.keys, 1000)
         /\ lk.pages = 0 => /\ lk.request.ContinuationToken = NoToken
                            /\ lk.request.MaxKeys = Min(lk.maxKeys, 1000)
         /\ lk.pages > 0 =>
              /\ lk.response.NextContinuationToken # NoToken
              /\ lk.keys < lk.maxKeys
              /\ lk.request.ContinuationToken =
                   lk.response.NextContinuationToken
    /\ lk.pc = "done" =>
         /\ lk.pages > 0
         /\ \/ lk.response.NextContinuationToken = NoToken
            \/ lk.keys >= lk.maxKeys

\* C15: the first page request of listKeys carries no continuation token and
\* asks for min(maxKeys, 1000) items; every later request carries the
\* NextContinuationToken of the response before it and asks for
\* min(maxKeys - keys collected, 1000) items; after a response another
\* request is made exactly if the response carried a token and fewer than
\* maxKeys keys are held.  Against a store whose listing ends, or that still
\* has keys to give when maxKeys is reached, a listKeys call that has begun
\* ends.
ThmC15_PagingProtocol ==
  /\ []ListKeysProtocol
  /\ (lk.pc = "page") ~> (lk.pc \in {"done", "failed"})

\* a listing of several pages that ended on maxKeys while the store still
\* offered a continuation token
WitC15_PagingProtocol ==
  /\ lk.fn = "listKeys"
  /\ lk.pc = "done"
  /\ lk.pages >= 3
  /\ lk.response.NextContinuationToken # NoToken
  /\ lk.keys = lk.maxKeys

(***************************************************************************)
(* Properties of _cleanCache                                               *)
(***************************************************************************)

\* every regular file of the tree the sweep began on was older than 30 days,
\* and the tree held directories and regular files only
SweepBeganAllStale ==
  \A n \in Nodes :
    \/ sw.start[n].type \in {"none", "Directory"}
    \/ /\ sw.start[n].type = "File"
       /\ sw.start[n].mtime < sw.startTime - ExpireAge

\* C7: when a sweep of a tree in which every regular file is older than 30
\* days returns, it returns true for the root and every file and every
\* subdirectory of the tree is gone.
CexC7_StaleTreeEmptied ==
  (sw.pc = "done" /\ SweepBeganAllStale) =>
    /\ sw.result = "true"
    /\ \A n \in Nodes \ {Root} : ~Present(fs, n)

\* C8: a file of the tree the sweep began on that is not older than 30 days
\* (for as long as the sweep runs) is never deleted, nor is any directory on
\* its path up to the root; when the sweep has returned, it has returned false
\* for each of these directories.
ThmC8_FreshChainKept ==
  \A n \in Nodes :
    (/\ sw.pc \in {"running", "done"}
     /\ sw.start[n].type = "File"
     /\ sw.start[n].mtime >= now - ExpireAge) =>
      /\ fs[n] = sw.start[n]
      /\ \A d \in Ancestors(n) :
           /\ fs[d].type = "Directory"
           /\ d \notin pendingDeletes
           /\ sw.returns[d] # "true"
           /\ sw.pc = "done" => sw.returns[d] = "false"

WitC8_FreshChainKept ==
  /\ sw.pc = "done"
  /\ sw.start[<<Trip, Old, WebpFile(NameA)>>].type = "File"
  /\ sw.start[<<Trip, Old, WebpFile(NameA)>>].mtime >= now - ExpireAge
  /\ sw.start[<<Trip, WebpFile(NameA)>>].type = "File"
  /\ ~Present(fs, <<Trip, WebpFile(NameA)>>)
  /\ sw.start[<<Home, WebpFile(NameA)>>].type = "File"
  /\ ~Present(fs, <<Home>>)
  /\ sw.returns[<<Trip, Old>>] = "false"
  /\ sw.returns[Root] = "false"

(***************************************************************************)
(* Properties of the image cache                                           *)
(***************************************************************************)

\* C6: a getCachedImage call that found no cache file and returned has made
\* exactly one fetch and one file write.  A call for the same (folder, name)
\* that began after such a call had returned makes no fetch and no write, and
\* returns the same path, which holds the bytes the first call fetched.
ThmC6_ReadThroughRoundTrip ==
  \A c \in Calls :
    (gc[c].pc = "done" /\ gc[c].miss) =>
      /\ gc[c].fetches = 1
      /\ gc[c].writes = 1
      /\ \A d \in Calls \ {c} :
           (/\ c \in gc[d].after
            /\ gc[d].folder = gc[c].folder
            /\ gc[d].image.name = gc[c].image.name) =>
             /\ gc[d].fetches = 0
             /\ gc[d].writes = 0
             /\ gc[d].pc \in {"stat", "done"}
             /\ gc[d].pc = "done" =>
                  /\ gc[d].result = gc[c].result
                  /\ fs[gc[d].result].type = "File"
                  /\ fs[gc[d].result].content = gc[c].content

WitC6_ReadThroughRoundTrip ==
  \E c \in Calls, d \in Calls :
    /\ c # d
    /\ gc[c].pc = "done"
    /\ gc[c].miss
    /\ gc[d].pc = "done"
    /\ c \in gc[d].after
    /\ gc[d].folder = gc[c].folder
    /\ gc[d].image.name = gc[c].image.name
    /\ gc[d].image.filename # gc[c].image.filename
    /\ fs[gc[d].result].content =
         RemoteBytes(getImageUrl(gc[c].folder, gc[c].image, config))

\* C9: while CACHE_DIR is null, every getCachedImage call has failed with
\* "Cache dir is not set" without a fetch or a file system request, every
\* writeCacheImage call (made by uploadImage) has failed with that error
\* without getting to createDirectory, writeFile or the sweep, and no sweep
\* is running or has run.
ThmC9_UninitialisedCacheFails ==
  CACHE_DIR = "null" =>
    /\ \A c \in Calls :
         /\ gc[c].pc \in {"idle", "failed"}
         /\ gc[c].pc = "failed" => gc[c].error = CacheDirNotSet
         /\ gc[c].fetches = 0 /\ gc[c].stats = 0
         /\ gc[c].mkdirs = 0 /\ gc[c].writes = 0
    /\ up.stage \notin {"createDirectory", "writeFile", "sweep"}
    /\ \A k \in 1..Len(up.log) :
         up.log[k].event = "writeCacheImage" =>
           /\ Len(up.results) >= up.log[k].item
           /\ up.results[up.log[k].item].status = "ERROR"
           /\ up.results[up.log[k].item].error = ErrorString(CacheDirNotSet)
    /\ sw.pc = "idle"
    /\ pendingDeletes = {}

WitC9_UninitialisedCacheFails ==
  /\ CACHE_DIR = "null"
  /\ \E c \in Calls : gc[c].pc = "failed" /\ gc[c].error = CacheDirNotSet
  /\ \E k \in 1..Len(up.log) : up.log[k].event = "writeCacheImage"
  /\ up.pc = "done"

\* the events of the cache write of the item being uploaded, in order
WriteEvents ==
  SelectSeq(up.log, LAMBDA e : e.event \in {"writeFile", "sweep"})

\* The cache writes of uploadImage so far: each write of the file is followed
\* at once by the start of one sweep, and a sweep started by the upload path
\* began at the cache root, with the file just written in place.
UploadSweepsOnce ==
  /\ \A j \in 1..Len(WriteEvents) :
       WriteEvents[j].event = (IF j % 2 = 1 THEN "writeFile" ELSE "sweep")
  /\ \A j \in 1..Len(WriteEvents) :
       j % 2 = 0 => WriteEvents[j].item = WriteEvents[j - 1].item
  /\ \A j \in 1..Len(WriteEvents), k \in 1..Len(WriteEvents) :
       (j < k /\ WriteEvents[j].event = WriteEvents[k].event) =>
         WriteEvents[j].item < WriteEvents[k].item
  /\ Len(WriteEvents) % 2 = 0
  /\ \A k \in 1..Len(up.results) :
       up.results[k].status = "SUCCESS" =>
         \E j \in 1..Len(WriteEvents) :
           WriteEvents[j] = [event |-> "sweep", item |-> k]
  /\ up.stage = "sweep" =>
       /\ sw.caller = "upload"
       /\ sw.pc = "running" => sw.stack[1].dir = Root
       /\ sw.start[CachePath(up.folder, up.image)].type = "File"
       /\ sw.start[CachePath(up.folder, up.image)].content =
            [kind |-> "converted", of |-> up.imageUris[up.i]]
  /\ sw.pc # "idle" => sw.caller = "upload"

\* A step of a getCachedImage call starts no sweep, requests no delete, and
\* changes no node of the cache other than the file it was asked for, which
\* it writes, and the directories on the path to it, which it creates if they
\* are missing.
GetCachedImageFrame ==
  gc' # gc =>
    /\ sw' = sw
    /\ pendingDeletes' = pendingDeletes
    /\ \A c \in Calls : gc'[c].pc # "sweep"
    /\ \A n \in Nodes :
         fs'[n] # fs[n] =>
           \E c \in Calls :
             LET path == CachePath(gc[c].folder, gc[c].image)
             IN /\ gc[c].pc \in {"createDirectory", "writeFile"}
                /\ gc'[c].pc # gc[c].pc
                /\ \/ /\ n = path
                      /\ fs'[n].type = "File"
                      /\ fs'[n].content = gc[c].content
                   \/ /\ n \in Ancestors(path)
                      /\ ~Present(fs, n)
                      /\ fs'[n].type = "Directory"

\* C16: a cache write of the upload path runs exactly one sweep, of the whole
\* cache root, after the file is written; a getCachedImage call, on a hit or on
\* a miss, runs no sweep and deletes or modifies no cache entry other than
\* the one it was asked for.
ThmC16_SweepOnUploadOnly ==
  /\ []UploadSweepsOnce
  /\ [][GetCachedImageFrame]_vars

\* an upload whose cache write was followed by one sweep, which has returned
\* after deleting a stale file another folder held when it began
WitC16_SweepOnUploadOnly ==
  /\ up.pc = "done"
  /\ Len(up.results) = 1
  /\ up.results[1].status = "SUCCESS"
  /\ WriteEvents = <<[event |-> "writeFile", item |-> 1],
                     [event |-> "sweep", item |-> 1]>>
  /\ sw.pc = "done"
  /\ sw.caller = "upload"
  /\ sw.start[<<Home, WebpFile(NameB)>>].type = "File"
  /\ ~Present(fs, <<Home, WebpFile(NameB)>>)
  /\ Present(fs, CachePath(up.folder, up.results[1].image))

\* the step in which the fetch of call c is answered with a status >= 400
NotFoundStep(c) ==
  /\ gc[c].pc = "fetch"
  /\ gc'[c].fetched = "response"
  /\ gc'[c].status >= 400

\* the step in which the stat of call c settles while the file is absent
MissStep(c) ==
  /\ gc[c].pc = "stat"
  /\ gc'[c].pc # "stat"
  /\ ~Present(fs, CachePath(gc[c].folder, gc[c].image))

\* C17: when getCachedImage misses and the fetch answers with a status >= 400,
\* the call fails with the "not found" error and the cache is as it was: the
\* call has created no directory and written no file, and the file of the key
\* is absent.  A call whose stat then finds the file absent, as that of a
\* later call for the same key does, misses and fetches.
ThmC17_NotFoundLeavesCacheAlone ==
  [][\A c \in Calls :
       /\ NotFoundStep(c) =>
            /\ gc'[c].pc = "failed"
            /\ gc'[c].error = ImageNotFound
            /\ gc'[c].miss
            /\ gc'[c].mkdirs = 0
            /\ gc'[c].writes = 0
            /\ fs' = fs
            /\ ~Present(fs', CachePath(gc[c].folder, gc[c].image))
       /\ MissStep(c) =>
            /\ gc'[c].pc = "fetch"
            /\ gc'[c].miss
            /\ gc'[c].fetches = 1]_vars

\* a call that failed on a 404 in a folder that does not exist, and a later
\* call for the same image that missed again and is fetching
WitC17_NotFoundLeavesCacheAlone ==
  \E c \in Calls, d \in Calls :
    /\ c # d
    /\ gc[c].fetched = "response"
    /\ gc[c].status = 404
    /\ gc[c].pc = "failed"
    /\ c \in gc[d].afterFailed
    /\ gc[d].folder = gc[c].folder
    /\ gc[d].image = gc[c].image
    /\ gc[d].pc = "fetch"
    /\ ~Present(fs, <<gc[c].folder>>)

\* C18: every failure of the fetch of getCachedImage, an HTTP error status or
\* a rejected fetch, reaches the caller as the "not found" error.
CexC18_FetchFailureIsNotFound ==
  \A c \in Calls :
    (\/ gc[c].fetched = "rejected"
     \/ (gc[c].fetched = "response" /\ gc[c].status >= 400)) =>
      /\ gc[c].pc = "failed"
      /\ gc[c].error = ImageNotFound

(***************************************************************************)
(* Properties of uploadImages                                              *)
(***************************************************************************)

\* the start and end events of the items, in the order they happened
ItemEvents ==
  SelectSeq(up.log, LAMBDA e : e.event \in {"start", "end"})

\* C10: the results of uploadImages are in input order, result k carrying uri
\* k, and there is one per uri when the batch returns; the items are processed
\* one at a time in input order (item k + 1 starts after item k has ended);
\* an item that failed has an ERROR result, and the items after it are still
\* processed.
ThmC10_BatchInOrder ==
  /\ Len(up.results) <= Len(up.imageUris)
  /\ \A k \in 1..Len(up.results) :
       /\ up.results[k].imageUri = up.imageUris[k]
       /\ up.results[k].status = "ERROR" <=> k \in up.failed
       /\ up.results[k].status \in {"ERROR", "SUCCESS"}
  /\ \A j \in 1..Len(ItemEvents) :
       ItemEvents[j] = [event |-> IF j % 2 = 1 THEN "start" ELSE "end",
                        item |-> (j + 1) \div 2]
  /\ up.pc = "done" =>
       /\ Len(up.results) = Len(up.imageUris)
       /\ Len(ItemEvents) = 2 * Len(up.imageUris)

WitC10_BatchInOrder ==
  /\ up.pc = "done"
  /\ Len(up.imageUris) = 2
  /\ up.results[1].status = "ERROR"
  /\ up.results[1].error = ErrorString("writeObject failed")
  /\ up.results[2].status = "SUCCESS"

(***************************************************************************)
(* Properties of the cached transport client                               *)
(***************************************************************************)

\* C11: a getS3Client call returns the client that was cached when it began
\* exactly if forceNew was false, a client was cached, and the current
\* configuration had the cached configuration's endpoint URL, region, access
\* key id, secret access key and path-style flag.  Otherwise it returns a
\* client that did not exist before and caches it with the current
\* configuration.  A call with forceNew false that follows another call with
\* no change in between returns the client the earlier call returned.
ThmC11_ClientReuse ==
  [][cl'.calls # cl.calls =>
       LET sameConnection ==
             /\ cachedConfig # NoConfig
             /\ config.s3EndpointUrl = cachedConfig.s3EndpointUrl
             /\ config.region = cachedConfig.region
             /\ config.accessKeyId = cachedConfig.accessKeyId
             /\ config.secretAccessKey = cachedConfig.secretAccessKey
             /\ config.forcePathStyle = cachedConfig.forcePathStyle
           reuse ==
             /\ ~cl'.forceNew
             /\ cachedClient # NoClient
             /\ sameConnection
       IN /\ cl'.returned # NoClient
          /\ cachedClient' = cl'.returned
          /\ reuse => /\ cl'.returned = cachedClient
                      /\ clients' = clients
          /\ ~reuse => /\ cl'.returned \notin 1..clients
                       /\ cachedConfig' = config
                       /\ cachedClient # NoClient => cachedClient \in destroyed'
          /\ (cl.quiet /\ ~cl'.forceNew) => cl'.returned = cl.returned]_vars

\* a call made after the path-style flag alone was changed has returned a new
\* client and destroyed the one that was cached
WitC11_ClientReuse ==
  /\ cl.quiet
  /\ ~cl.forceNew
  /\ cl.returned = 2
  /\ cachedClient = 2
  /\ 1 \in destroyed
  /\ clients = 2
  /\ config = [DefaultConfig EXCEPT !.forcePathStyle = FALSE]

(***************************************************************************)
(* Properties of testConnection                                            *)
(***************************************************************************)

\* C12: when the listing of testConnection fails with e, testConnection
\* rejects with an S3Error: not retryable and with the credentials message if
\* e is an Auth error; else retryable and with the configured endpoint in the
\* message if e.code is NetworkingError or ENOTFOUND; else retryable exactly
\* if e is Retryable, with e's code and HTTP status attached.  When the
\* listing succeeds testConnection resolves.  The listing asks for 10 keys.
ThmC12_TestConnectionTaxonomy ==
  /\ tc.pc \in {"resolved", "rejected"} =>
       (tc.pc = "resolved" <=> lk.pc = "done")
  /\ tc.pc # "idle" =>
       /\ lk.maxKeys = 10
       /\ lk.request.MaxKeys <= 10
       /\ lk.keys <= 10
  /\ tc.pc = "rejected" =>
       LET e == tc.cause
           auth == \/ e.code \in {"Forbidden", "Unauthorized"}
                   \/ e.status \in {401, 403}
           network == e.code \in {"NetworkingError", "ENOTFOUND"}
           retryable == \/ e.code = "TooManyRequests"
                        \/ e.status = 429
                        \/ (e.status >= 500 /\ e.status < 600)
       IN /\ e = lk.error
          /\ tc.error.name = "S3Error"
          /\ auth => /\ tc.error.retryable = FALSE
                     /\ tc.error.message = AuthFailedMessage
          /\ (~auth /\ network) =>
               /\ tc.error.retryable = TRUE
               /\ \E k \in 1..Len(tc.error.message) :
                    tc.error.message[k] = config.s3EndpointUrl
          /\ (~auth /\ ~network) =>
               /\ tc.error.retryable = retryable
               /\ tc.error.code = e.code
               /\ tc.error.statusCode = e.status

\* a listing that failed with an error that is both an Auth error and a
\* NetworkingError was reported as an authentication failure
WitC12_TestConnectionTaxonomy ==
  /\ tc.pc = "rejected"
  /\ tc.cause = [code |-> "NetworkingError", status |-> 403]
  /\ tc.error.retryable = FALSE
  /\ tc.error.message = AuthFailedMessage

(***************************************************************************)
(* Properties of listDirectories                                           *)
(***************************************************************************)

\* C13: every page request of a listDirectories call carries as Prefix the
\* imagesPrefix of the configuration that was cached with the client when
\* the call began, whatever its prefix argument; every page request of a
\* listKeys call carries the call's prefix argument.
ThmC13_ListDirectoriesPrefix ==
  /\ lk.fn = "listDirectories" =>
       /\ lk.request.Prefix = lk.config.imagesPrefix
       /\ lk.config = cachedConfig
  /\ lk.fn = "listKeys" => lk.request.Prefix = lk.prefix

\* a second page of a listDirectories call whose prefix argument is neither
\* the cached imagesPrefix nor the one now configured
WitC13_ListDirectoriesPrefix ==
  /\ lk.fn = "listDirectories"
  /\ lk.pc = "page"
  /\ lk.pages >= 1
  /\ lk.prefix = "images/trip/"
  /\ lk.request.Prefix = "img/"
  /\ config.imagesPrefix = "images/"

(***************************************************************************)
(* Properties of parseImageInfo                                            *)
(***************************************************************************)

\* C14: parseImageInfo returns no result or an ImageInfo whose name is not
\* the empty string.
CexC14_NameNeverEmpty ==
  (pi.pc = "returned" /\ pi.result # NoParse) => pi.result.name # <<>>

\* C19: a sweep deletes a regular file if and only if it is older than 30
\* days at the time of the sweep.  A file that goes away is more than 30 days
\* old at that moment, a file written while a sweep is running included; and
\* the stat of a visited file older than the 30 days of the activation that
\* visits it is followed by the delete of that file.
CexC19_DeletesOnlyOlderThan30Days ==
  [][\A n \in FileNodes :
       /\ (fs[n].type = "File" /\ ~Present(fs', n))
            => now - fs[n].mtime > ExpireAge
       /\ (/\ sw.pc = "running"
           /\ sw' # sw
           /\ SweepTop.pc \in {"stat", "delete"}
           /\ Head(SweepTop.entries).node = n
           /\ fs[n].type = "File") =>
             /\ (SweepTop.pc = "stat" /\ fs[n].mtime < SweepTop.expireTime)
                  => (sw'.pc = "running"
                      /\ sw'.stack[Len(sw'.stack)].pc = "delete")
             /\ SweepTop.pc = "delete" => ~Present(fs', n)]_vars

\* the entries of a directory that the sweep has returned true for, when
\* no cache write has been made since: subdirectories it has returned true
\* for, whose delete it has requested
RetainedGivesFalse ==
  (up.pc = "idle" /\ sw.pc \in {"running", "done"}) =>
    \A d \in Directories :
      sw.returns[d] = "true" =>
        \A n \in Children(fs, d) :
          n \in Directories /\ sw.returns[n] = "true"

\* a directory goes away only when its delete has been requested and it is
\* empty, and the delete of a directory is requested only when its sweep has
\* returned true
DirectoryDeletedWhenSweptEmpty ==
  \A d \in Directories :
    /\ (Present(fs, d) /\ ~Present(fs', d)) =>
         /\ d # Root
         /\ d \in pendingDeletes
         /\ Children(fs, d) = {}
    /\ (d \in pendingDeletes' /\ d \notin pendingDeletes) =>
         /\ d # Root
         /\ sw'.returns[d] = "true"

\* C20: a sweep deletes a subdirectory only after the sweep of that
\* subdirectory has returned true, and without recursion: a directory that
\* holds an entry (a fresh file, an entry of unexpected type, a non-empty
\* subdirectory, a file added during the sweep) is never removed; the root
\* of the sweep is never deleted; and the sweep returns false for a directory
\* in which it retained an entry.
ThmC20_DirectoryDeletes ==
  /\ [](Present(fs, Root) /\ Root \notin pendingDeletes /\ RetainedGivesFalse)
  /\ [][DirectoryDeletedWhenSweptEmpty]_vars

\* The sweep returned true for trip and requested its delete; a file was
\* written to trip in the meantime, so the delete did nothing and trip is
\* still there when the sweep has returned.
WitC20_DirectoryDeletes ==
  /\ sw.pc = "done"
  /\ sw.returns[<<Trip>>] = "true"
  /\ <<Trip>> \notin pendingDeletes
  /\ Present(fs, <<Trip>>)
  /\ fs[<<Trip, WebpFile(NameA)>>].content.kind = "converted"
  /\ fs[<<Trip, WebpFile(NameA)>>].mtime >= sw.startTime

\* the clients constructed so far that have not been destroyed
LiveClients ==
  (1..clients) \ destroyed

\* C21: cachedClient and cachedConfig are both null or both set, and at most
\* one client built by getS3Client is not destroyed: when getS3Client builds
\* a client or clearClientCache is called, the client that was cached is
\* destroyed by the time the new one is stored.
ThmC21_OneLiveClient ==
  /\ []((cachedClient = NoClient) <=> (cachedConfig = NoConfig))
  /\ [](LiveClients \subseteq {cachedClient} /\ Cardinality(LiveClients) <= 1)
  /\ [][(cachedClient' # cachedClient /\ cachedClient # NoClient)
          => (cachedClient \in destroyed' /\ cachedClient \notin destroyed)]_vars

\* A second client has replaced the first one, which is destroyed.
WitC21_OneLiveClient ==
  /\ clients = 2
  /\ cachedClient = 2
  /\ cachedConfig # NoConfig
  /\ destroyed = {1}

\* the position of an event in the log of the batch, 0 when it is not there
LogIndex(e) ==
  IF \E j \in 1..Len(up.log) : up.log[j] = e
  THEN CHOOSE j \in 1..Len(up.log) : up.log[j] = e
  ELSE 0

\* what item k has done so far: the log between its start and its end
ItemSteps(k) ==
  LET first == LogIndex([event |-> "start", item |-> k])
      last == LogIndex([event |-> "end", item |-> k])
  IN SubSeq(up.log, first + 1, IF last = 0 THEN Len(up.log) ELSE last - 1)

\* the ImageInfo uploadImage builds for item k
ItemImage(k) ==
  LET parsed == parseImageInfo(up.imageUris[k].path)
  IN IF parsed = NoParse
     THEN NoImage
     ELSE [name |-> parsed.name,
           filename |-> getImageFilename(parsed.name, Size8x6)]

\* the effects of a complete uploadImage of item k, in order
UploadEffects(k) ==
  <<writeObject(config.imagesBucket, getImageKey(up.folder, ItemImage(k), config)),
    writeObject(config.imagesBucket,
                getPreviewImageKey(up.folder, ItemImage(k), config)),
    [event |-> "writeCacheImage", item |-> k],
    [event |-> "writeFile", item |-> k],
    [event |-> "sweep", item |-> k]>>

IsPrefix(a, b) ==
  Len(a) <= Len(b) /\ a = SubSeq(b, 1, Len(a))

\* C22: the effects of uploadImage come in the order put of the original, put
\* of the preview, cache write, sweep, each one only after those before it
\* succeeded.  An item is SUCCESS only if all of them were made and the sweep
\* returned; an item whose cache write or sweep failed after both puts is
\* ERROR although both objects are stored.
ThmC22_UploadEffectsInOrder ==
  /\ [](\A k \in 1..Len(up.imageUris) :
          LogIndex([event |-> "start", item |-> k]) # 0 =>
            /\ IsPrefix(ItemSteps(k), UploadEffects(k))
            /\ k <= Len(up.results) =>
                 /\ up.results[k].status = "SUCCESS"
                      => ItemSteps(k) = UploadEffects(k)
                 /\ (/\ up.results[k].status = "ERROR"
                     /\ up.results[k].error = ErrorString(CacheDirNotSet))
                      => ItemSteps(k) = SubSeq(UploadEffects(k), 1, 3))
  /\ [][Len(up'.results) > Len(up.results) =>
          /\ up'.results[Len(up'.results)].status = "SUCCESS"
               => (up.stage = "sweep" /\ sw.caller = "upload" /\ sw.pc = "done")
          /\ (up.stage = "sweep" /\ sw.pc = "failed")
               => up'.results[Len(up'.results)].status = "ERROR"]_vars

\* The first item failed in its cache write after both its puts, the second
\* one succeeded.
WitC22_UploadEffectsInOrder ==
  /\ Len(up.results) = 2
  /\ up.results[1].status = "ERROR"
  /\ up.results[1].error = ErrorString(CacheDirNotSet)
  /\ Len(ItemSteps(1)) = 3
  /\ up.results[2].status = "SUCCESS"
  /\ ItemSteps(2) = UploadEffects(2)

\* C23: listKeys and listDirectories never swallow a failure.  When a page
\* request fails with an error that is not retried, or with the error of the
\* last retry, the call rejects with that same error; a call that has
\* returned its list had no page that failed for good.
ThmC23_ListFailurePropagates ==
  /\ [](/\ lk.pc = "failed" =>
            /\ rt.pc = "rejected"
            /\ lk.error = rt.lastThrown
            /\ lk.error # NoError
        /\ lk.pc = "done" => (rt.pc = "resolved" /\ lk.error = NoError)
        /\ (rt.pc = "rejected" /\ rt.caller \in {"listKeys", "listDirectories"})
             => lk.pc = "failed")
  /\ [][(rt'.pc = "rejected" /\ rt.pc = "operation"
          /\ rt.caller \in {"listKeys", "listDirectories"}) =>
           /\ lk'.pc = "failed"
           /\ lk'.error = rt'.lastThrown
           /\ lk'.error \in ListErrors
           /\ (~isRetryable(lk'.error) \/ rt.attempt = rt.maxRetries)]_vars

\* listDirectories collected the entries of a first page, and the request
\* for the next page failed on its last retry: the call has rejected.
WitC23_ListFailurePropagates ==
  /\ lk.fn = "listDirectories"
  /\ lk.pc = "failed"
  /\ lk.pages >= 1
  /\ lk.keys > 0
  /\ rt.attempt = rt.maxRetries
  /\ isRetryable(lk.error)

\* C24: a getCachedImage call makes at most one fetch, and a call that has
\* returned has fetched and written once if it missed and not at all if it
\* hit; calls for the same (folder, name) that have returned have returned
\* the same path, and the file is there.  Misses of the same key that overlap
\* are not collapsed (the witness: each of them fetched and wrote).
ThmC24_OverlappingMisses ==
  \A c \in Calls :
    /\ gc[c].fetches <= 1
    /\ gc[c].writes <= 1
    /\ gc[c].pc = "done" =>
         /\ gc[c].fetches = (IF gc[c].miss THEN 1 ELSE 0)
         /\ gc[c].writes = gc[c].fetches
         /\ gc[c].result = CachePath(gc[c].folder, gc[c].image)
         /\ fs[gc[c].result].type = "File"
         /\ \A d \in Calls :
              (/\ gc[d].pc = "done"
               /\ gc[d].folder = gc[c].folder
               /\ gc[d].image.name = gc[c].image.name)
                => gc[d].result = gc[c].result

\* Two calls for the same key overlapped: the second one began before the
\* first one returned, each of them missed, fetched and wrote, and both have
\* returned.
WitC24_OverlappingMisses ==
  /\ \A c \in Calls :
       /\ gc[c].pc = "done"
       /\ gc[c].miss
       /\ gc[c].fetches = 1
       /\ gc[c].writes = 1
       /\ gc[c].after = {}
       /\ gc[c].afterFailed = {}
  /\ gc[1].folder = gc[2].folder
  /\ gc[1].image = gc[2].image

\* C25: the cache entry is identified by folder and image.name, the fetch URL
\* is built from image.filename.  A call that began after a call for the same
\* folder and name and another filename had fetched and returned makes no
\* fetch, and returns the same path, which holds the bytes fetched from the
\* URL of the first filename, not those of the URL of its own filename.
ThmC25_EntryKeyedByName ==
  \A c \in Calls, d \in Calls :
    (/\ gc[c].pc = "done"
     /\ gc[c].miss
     /\ gc[d].pc = "done"
     /\ c \in gc[d].after
     /\ gc[d].folder = gc[c].folder
     /\ gc[d].image.name = gc[c].image.name
     /\ gc[d].image.filename # gc[c].image.filename) =>
      /\ ~gc[d].miss
      /\ gc[d].fetches = 0
      /\ gc[d].result = gc[c].result
      /\ gc[c].content =
           RemoteBytes(getImageUrl(gc[c].folder, gc[c].image, config))
      /\ fs[gc[d].result].content = gc[c].content
      /\ fs[gc[d].result].content #
           RemoteBytes(getImageUrl(gc[d].folder, gc[d].image, config))

\* a.8x6.webp of trip was fetched and cached, and the call for a.4x3.webp of
\* trip that followed has returned.
WitC25_EntryKeyedByName ==
  /\ gc[1].pc = "done"
  /\ gc[1].miss
  /\ gc[1].folder = Trip
  /\ gc[1].image = [name |-> NameA,
                    filename |-> getImageFilename(NameA, Size8x6)]
  /\ gc[2].pc = "done"
  /\ 1 \in gc[2].after
  /\ gc[2].folder = Trip
  /\ gc[2].image = [name |-> NameA,
                    filename |-> getImageFilename(NameA, Size4x3)]
  /\ gc[2].fetches = 0

\* a list request is sent: withRetry invokes operation(), at the call, for
\* the next page, or when its timer has fired
SendsListRequest ==
  /\ rt'.pc = "operation"
  /\ rt'.caller \in {"listKeys", "listDirectories"}
  /\ rt' # rt

\* C26: no list request is sent on a client that has been destroyed: after
\* a configuration change and a getS3Client call, or a clearClientCache call,
\* between two pages of a listKeys or listDirectories call, the remaining
\* pages of that call are not sent on the destroyed client.
CexC26_NoRequestOnDestroyedClient ==
  [][SendsListRequest => lk'.request.client \notin destroyed']_vars

\* listKeys or listDirectories is called
ListCallBegins ==
  /\ lk'.pc = "page"
  /\ lk'.pages = 0
  /\ lk' # lk

\* C27: the bucket of the requests of listKeys and listDirectories, and the
\* prefix of those of listDirectories, are those of the configuration stored
\* when the cached client was built.  A call made when the current
\* configuration has the connection fields of the stored one keeps the
\* client and the stored configuration, and its requests carry the stored
\* bucket and prefix, whatever the bucket argument and the current settings;
\* the later pages of the call carry them too.
ThmC27_ListUsesSnapshot ==
  /\ [][(/\ ListCallBegins
          /\ cachedClient # NoClient
          /\ configsEqual(config, cachedConfig)) =>
           /\ cachedClient' = cachedClient
           /\ cachedConfig' = cachedConfig
           /\ lk'.request.Bucket = cachedConfig.imagesBucket
           /\ lk'.fn = "listDirectories"
                => lk'.request.Prefix = cachedConfig.imagesPrefix]_vars
  /\ [][(lk.pc = "page" /\ lk'.pc = "page" /\ lk'.pages # 0) =>
           /\ lk'.request.Bucket = lk.request.Bucket
           /\ lk'.request.Prefix = lk.request.Prefix]_vars

\* After the client was built the bucket and prefix settings were changed;
\* the second page of a listDirectories call made since carries the bucket
\* and prefix of before the change.
WitC27_ListUsesSnapshot ==
  /\ lk.pc = "page"
  /\ lk.fn = "listDirectories"
  /\ lk.pages = 1
  /\ clients = 1
  /\ lk.bucket = config.imagesBucket
  /\ lk.request.Bucket # lk.bucket
  /\ lk.request.Prefix # config.imagesPrefix
  /\ lk.request.Prefix # lk.prefix
  /\ lk.request.Bucket = cachedConfig.imagesBucket
  /\ configsEqual(config, cachedConfig)

====
